---- MODULE Spec2Model ----
(***************************************************************************)
(* Model of the BTi/4D MagnesWH3600 reader of mne/fiff/bti/raw.py:         *)
(* channel renaming, the config-file user-block decoder, the PDF header    *)
(* locator and the channel reconciliation / calibration of _read_data.     *)
(*                                                                         *)
(* Strings the code inspects character by character (channel names) are    *)
(* sequences of one-character strings, so that startswith, slicing, int()  *)
(* and %-formatting are computed, not assumed.                             *)
(***************************************************************************)
EXTENDS Integers, Sequences, FiniteSets, TLC

VARIABLES
    names,          \* _rename_channels: the argument of the last call
    new,            \* _rename_channels: the list it returned
    rn_pc,          \* "call" before _rename_channels(names) runs, "returned" after
    calls,          \* _rename_channels: the counters and the calls made so far
    rc,             \* read_config: its activation (see NewReadConfig)
    pdf,            \* the processed data file being read
    hd,             \* _read_bti_header: pc, and what the call came to
    config,         \* the config file being read by _read_data
    rd,             \* _read_data: its activation (see NewReadData)
    raw             \* Raw.__init__: its activation (see NewRaw)

renameVars == <<names, new, rn_pc, calls>>
headerVars == <<pdf, hd>>
dataVars == <<config, rd>>
vars == <<names, new, rn_pc, calls, rc, pdf, hd, config, rd, raw>>

----------------------------------------------------------------------------
(* Bounds of the model *)

MaxNames == 3       \* longest channel-name list given to _rename_channels

----------------------------------------------------------------------------
(* Character-level string helpers (Python str semantics) *)

DigitChars == <<"0", "1", "2", "3", "4", "5", "6", "7", "8", "9">>

IsDigit(c) == \E d \in 1..10 : DigitChars[d] = c

DigitVal(c) == (CHOOSE d \in 1..10 : DigitChars[d] = c) - 1

\* str.startswith
StartsWith(s, prefix) ==
    /\ Len(s) >= Len(prefix)
    /\ \A k \in 1..Len(prefix) : s[k] = prefix[k]

\* s[:n]
Prefix(s, n) == SubSeq(s, 1, IF Len(s) < n THEN Len(s) ELSE n)

\* s[1:]
Tail1(s) == IF Len(s) = 0 THEN <<>> ELSE Tail(s)

RECURSIVE DecDigits(_)
DecDigits(n) ==
    IF n < 10 THEN <<DigitChars[n + 1]>>
    ELSE DecDigits(n \div 10) \o <<DigitChars[(n % 10) + 1]>>

\* '%3.3d' % n for n >= 0: decimal, zero-padded to at least three digits
Fmt3d(n) ==
    LET d == DecDigits(n)
    IN  IF Len(d) >= 3 THEN d ELSE [k \in 1..(3 - Len(d)) |-> "0"] \o d

\* a non-empty string of decimal digits
IsDecimal(s) == Len(s) > 0 /\ \A k \in 1..Len(s) : IsDigit(s[k])

RECURSIVE ParseDec(_)
\* int(s) for a string of decimal digits
ParseDec(s) ==
    IF Len(s) = 0 THEN 0
    ELSE 10 * ParseDec(SubSeq(s, 1, Len(s) - 1)) + DigitVal(s[Len(s)])

----------------------------------------------------------------------------
(* 4D channel names and Neuromag prefixes *)

N_RESPONSE  == <<"R", "E", "S", "P", "O", "N", "S", "E">>
N_TRIGGER   == <<"T", "R", "I", "G", "G", "E", "R">>
N_ECG       == <<"E", "C", "G">>
N_UACurrent == <<"U", "A", "C", "u", "r", "r", "e", "n", "t">>
P_A         == <<"A">>
P_EOG       == <<"E", "O", "G">>
P_M         == <<"M">>
P_G         == <<"G">>
P_X         == <<"X">>

V_MEG     == <<"M", "E", "G", " ">>
V_EOG     == <<"E", "O", "G", " ">>
V_RFM     == <<"R", "F", "M", " ">>
V_RFG     == <<"R", "F", "G", " ">>
V_EXT     == <<"E", "X", "T", " ">>
V_SRI_013 == <<"S", "R", "I", " ", "0", "1", "3">>
V_STI_014 == <<"S", "T", "I", " ", "0", "1", "4">>
V_ECG_001 == <<"E", "C", "G", " ", "0", "0", "1">>
V_UTL_001 == <<"U", "T", "L", " ", "0", "0", "1">>

----------------------------------------------------------------------------
(* _rename_channels *)

\* the four itertools.count(1) generators: the value each yields next
NewCounters == [ref_mag |-> 1, ref_grad |-> 1, eog |-> 1, ext |-> 1]

\* RenameOne with one running counter shared by the EOG, M*, G* and X* kinds
RenameOne_SharedCounter(name, i, c) ==
    LET bump == [c EXCEPT !.eog = @ + 1]
    IN  IF StartsWith(name, P_A) THEN
            [name |-> V_MEG \o Fmt3d(i), c |-> c]
        ELSE IF name = N_RESPONSE THEN
            [name |-> V_SRI_013, c |-> c]
        ELSE IF name = N_TRIGGER THEN
            [name |-> V_STI_014, c |-> c]
        ELSE IF StartsWith(name, P_EOG) THEN
            [name |-> V_EOG \o Fmt3d(c.eog), c |-> bump]
        ELSE IF name = N_ECG THEN
            [name |-> V_ECG_001, c |-> c]
        ELSE IF name = N_UACurrent THEN
            [name |-> V_UTL_001, c |-> c]
        ELSE IF StartsWith(name, P_M) THEN
            [name |-> V_RFM \o Fmt3d(c.eog), c |-> bump]
        ELSE IF StartsWith(name, P_G) THEN
            [name |-> V_RFG \o Fmt3d(c.eog), c |-> bump]
        ELSE IF StartsWith(name, P_X) THEN
            [name |-> V_EXT \o Fmt3d(c.eog), c |-> bump]
        ELSE
            [name |-> name, c |-> c]

\* RenameOne with TRIGGER given the name of the RESPONSE rule above it
RenameOne_TriggerAsResponse(name, i, c) ==
    IF StartsWith(name, P_A) THEN
        [name |-> V_MEG \o Fmt3d(i), c |-> c]
    ELSE IF name = N_RESPONSE THEN
        [name |-> V_SRI_013, c |-> c]
    ELSE IF name = N_TRIGGER THEN
        [name |-> V_SRI_013, c |-> c]
    ELSE IF StartsWith(name, P_EOG) THEN
        [name |-> V_EOG \o Fmt3d(c.eog), c |-> [c EXCEPT !.eog = @ + 1]]
    ELSE IF name = N_ECG THEN
        [name |-> V_ECG_001, c |-> c]
    ELSE IF name = N_UACurrent THEN
        [name |-> V_UTL_001, c |-> c]
    ELSE IF StartsWith(name, P_M) THEN
        [name |-> V_RFM \o Fmt3d(c.ref_mag), c |-> [c EXCEPT !.ref_mag = @ + 1]]
    ELSE IF StartsWith(name, P_G) THEN
        [name |-> V_RFG \o Fmt3d(c.ref_grad), c |-> [c EXCEPT !.ref_grad = @ + 1]]
    ELSE IF StartsWith(name, P_X) THEN
        [name |-> V_EXT \o Fmt3d(c.ext), c |-> [c EXCEPT !.ext = @ + 1]]
    ELSE
        [name |-> name, c |-> c]

\* one pass of the loop body: the renamed entry and the counters after it
RenameOne(name, i, c) ==
    IF StartsWith(name, P_A) THEN
        [name |-> V_MEG \o Fmt3d(i), c |-> c]
    ELSE IF name = N_RESPONSE THEN
        [name |-> V_SRI_013, c |-> c]
    ELSE IF name = N_TRIGGER THEN
        [name |-> V_STI_014, c |-> c]
    ELSE IF StartsWith(name, P_EOG) THEN
        [name |-> V_EOG \o Fmt3d(c.eog), c |-> [c EXCEPT !.eog = @ + 1]]
    ELSE IF name = N_ECG THEN
        [name |-> V_ECG_001, c |-> c]
    ELSE IF name = N_UACurrent THEN
        [name |-> V_UTL_001, c |-> c]
    ELSE IF StartsWith(name, P_M) THEN
        [name |-> V_RFM \o Fmt3d(c.ref_mag), c |-> [c EXCEPT !.ref_mag = @ + 1]]
    ELSE IF StartsWith(name, P_G) THEN
        [name |-> V_RFG \o Fmt3d(c.ref_grad), c |-> [c EXCEPT !.ref_grad = @ + 1]]
    ELSE IF StartsWith(name, P_X) THEN
        [name |-> V_EXT \o Fmt3d(c.ext), c |-> [c EXCEPT !.ext = @ + 1]]
    ELSE
        [name |-> name, c |-> c]

RECURSIVE RenameFrom(_, _, _)
RenameFrom(ns, i, c) ==
    IF i > Len(ns) THEN <<>>
    ELSE LET r == RenameOne(ns[i], i, c)
         IN  <<r.name>> \o RenameFrom(ns, i + 1, r.c)

rename_channels(ns) == RenameFrom(ns, 1, NewCounters)

RECURSIVE CountersFrom(_, _, _)
\* the counters after the passes i.. of the loop
CountersFrom(ns, i, c) ==
    IF i > Len(ns) THEN c
    ELSE CountersFrom(ns, i + 1, RenameOne(ns[i], i, c).c)

\* no call made yet
NoCalls == [c |-> NewCounters, log |-> <<>>]

\* one call with the counters of line 75 created once for the module, c
\* being what the calls before left of them
RenameCall_ModuleCounters(c, ns) ==
    [new |-> RenameFrom(ns, 1, c), names |-> ns,
     c |-> CountersFrom(ns, 1, c)]

\* one call _rename_channels(names) on the list ns, c being what the
\* calls before left of their counters: the list returned, the argument
\* list after the call, the counters after the call
RenameCall(c, ns) ==
    LET c0 == NewCounters
    IN  [new |-> RenameFrom(ns, 1, c0), names |-> ns,
         c |-> CountersFrom(ns, 1, c0)]

----------------------------------------------------------------------------
(* Inputs of _rename_channels *)

NamePool ==
    { <<"A", "1">>, <<"A", "1", "2">>, <<"A", "1", "2", "3">>,
      N_TRIGGER, N_RESPONSE, N_ECG, N_UACurrent,
      <<"E", "O", "G">>, <<"E", "O", "G", "v">>,
      <<"M", "x", "A">>, <<"G", "x", "x", "A">>, <<"X", "1">>,
      <<"E", "1">>,
      \* names _rename_channels gives out
      V_MEG \o Fmt3d(1), V_STI_014 }

RECURSIVE SeqsUpTo(_, _)
\* all sequences over S of length at most n
SeqsUpTo(S, n) ==
    IF n = 0 THEN {<<>>}
    ELSE LET shorter == SeqsUpTo(S, n - 1)
         IN  shorter \cup {Append(s, x) : s \in shorter, x \in S}

NameLists == SeqsUpTo(NamePool, MaxNames)

\* no processed data file is being read
NoPdf == [start |-> 0]

NoConfigFile == [blocks |-> <<>>, channels |-> <<>>]

\* no call of _read_data pending
IdleData ==
    /\ config = NoConfigFile
    /\ rd = [pc |-> "idle"]

\* no Raw(...) under construction
IdleRaw == raw = [pc |-> "idle"]

----------------------------------------------------------------------------
\* no call of _rename_channels pending
IdleRename ==
    /\ names = <<>>
    /\ new = <<>>
    /\ rn_pc = "idle"
    /\ calls = NoCalls

\* a caller is about to call _rename_channels(names)
InitRename ==
    /\ names \in NameLists
    /\ new = <<>>
    /\ rn_pc = "call"
    /\ calls = NoCalls
    /\ rc = [pc |-> "idle"]
    /\ pdf = NoPdf
    /\ hd = [pc |-> "idle"]
    /\ IdleData
    /\ IdleRaw

\* the call _rename_channels(names) runs to its return
RenameChannels ==
    /\ rn_pc = "call"
    /\ new' = rename_channels(names)
    /\ rn_pc' = "returned"
    /\ UNCHANGED <<names, calls, rc, pdf, hd, dataVars, raw>>

NextRename == RenameChannels

SpecRename == InitRename /\ [][NextRename]_vars

----------------------------------------------------------------------------
(* Claims about _rename_channels, checked under SpecRename *)

\* the 4D name is "A" followed by a decimal integer
IsANumber(name) == StartsWith(name, P_A) /\ IsDecimal(Tail1(name))

\* how many of ns[1..i] start with prefix p
CountPrefix(ns, i, p) == Cardinality({j \in 1..i : StartsWith(ns[j], p)})

\* the name matches none of the renaming rules
MatchesNoRule(name) ==
    /\ ~StartsWith(name, P_A)
    /\ name \notin {N_RESPONSE, N_TRIGGER, N_ECG, N_UACurrent}
    /\ ~StartsWith(name, P_EOG)
    /\ ~StartsWith(name, P_M)
    /\ ~StartsWith(name, P_G)
    /\ ~StartsWith(name, P_X)

\* C4: every channel named "A" + integer n is renamed to "MEG " + n padded
\* to three digits, whatever its position in the list and whatever the
\* other names are.
C4_ANumberBecomesMegNumber ==
    rn_pc = "returned" =>
        \A i \in 1..Len(names) :
            IsANumber(names[i]) =>
                /\ i <= Len(new)
                /\ new[i] = V_MEG \o Fmt3d(ParseDec(Tail1(names[i])))

\* C5: the k-th name (in input order) that starts with "EOG" becomes
\* "EOG " + k padded to three digits, likewise "M*" -> "RFM nnn",
\* "G*" -> "RFG nnn", "X*" -> "EXT nnn"; channels of another kind in
\* between never advance a kind's counter.
C5_PerKindRunningCounters ==
    rn_pc = "returned" =>
        /\ Len(new) = Len(names)
        /\ \A i \in 1..Len(names) :
            /\ StartsWith(names[i], P_EOG) =>
                  new[i] = V_EOG \o Fmt3d(CountPrefix(names, i, P_EOG))
            /\ StartsWith(names[i], P_M) =>
                  new[i] = V_RFM \o Fmt3d(CountPrefix(names, i, P_M))
            /\ StartsWith(names[i], P_G) =>
                  new[i] = V_RFG \o Fmt3d(CountPrefix(names, i, P_G))
            /\ StartsWith(names[i], P_X) =>
                  new[i] = V_EXT \o Fmt3d(CountPrefix(names, i, P_X))

\* two EOG channels with a channel of another counted kind between them:
\* the second one is "EOG 002"
C5_Witness ==
    /\ rn_pc = "returned"
    /\ Len(names) = 3
    /\ StartsWith(names[1], P_EOG)
    /\ StartsWith(names[2], P_M)
    /\ StartsWith(names[3], P_EOG)
    /\ new[2] = V_RFM \o <<"0", "0", "1">>
    /\ new[3] = V_EOG \o <<"0", "0", "2">>

\* C6: "TRIGGER" becomes "STI 014" at every position; the output has the
\* length of the input, entry i is the renaming of input entry i, and a
\* name matching no rule is passed through unchanged.
C6_TriggerAndPassThrough ==
    rn_pc = "returned" =>
        /\ Len(new) = Len(names)
        /\ \A i \in 1..Len(names) :
            /\ names[i] = N_TRIGGER => new[i] = V_STI_014
            /\ MatchesNoRule(names[i]) => new[i] = names[i]

\* "TRIGGER" renamed at a position other than the first, next to a name
\* that no rule matches
C6_Witness ==
    /\ rn_pc = "returned"
    /\ \E i, j \in 1..Len(names) :
        /\ i > 1
        /\ names[i] = N_TRIGGER
        /\ new[i] = V_STI_014
        /\ MatchesNoRule(names[j])
        /\ new[j] = names[j]

\* names is itself a list _rename_channels returns
AlreadyRenamed(ns) ==
    \E src \in NameLists : Len(src) = Len(ns) /\ rename_channels(src) = ns

\* C15: a call of _rename_channels on a list that is already an output of
\* _rename_channels does not return a second, different renaming.
C15_RenamedListIsNotRenamedAgain ==
    (rn_pc = "returned" /\ new # names) => ~AlreadyRenamed(names)

----------------------------------------------------------------------------
(* _rename_channels called several times in one process *)

MaxCalls == 3

\* lists with names of the four counted kinds, and of none
CallLists ==
    { <<>>,
      <<N_TRIGGER>>,
      <<<<"E", "O", "G">>>>,
      <<<<"E", "O", "G">>, <<"E", "O", "G", "v">>>>,
      <<<<"M", "x", "A">>, <<"E", "O", "G">>>>,
      <<<<"G", "x", "x", "A">>, <<"X", "1">>>>,
      <<<<"A", "1">>, <<"M", "x", "A">>, <<"X", "1">>>> }

InitCalls ==
    /\ IdleRename
    /\ rc = [pc |-> "idle"]
    /\ pdf = NoPdf
    /\ hd = [pc |-> "idle"]
    /\ IdleData
    /\ IdleRaw

\* one more call, on any list, run to its return
CallRenameChannels ==
    /\ Len(calls.log) < MaxCalls
    /\ \E ns \in CallLists :
          LET r == RenameCall(calls.c, ns)
          IN  /\ names' = r.names
              /\ new' = r.new
              /\ calls' = [c |-> r.c,
                           log |-> Append(calls.log,
                                          [arg |-> ns, names |-> r.names,
                                           new |-> r.new])]
    /\ rn_pc' = "returned"
    /\ UNCHANGED <<rc, pdf, hd, dataVars, raw>>

NextCalls == CallRenameChannels

SpecCalls == InitCalls /\ [][NextCalls]_vars

\* C27: _rename_channels keeps its per-kind counters local to a single
\* call: every call starts its EOG, RFM, RFG and EXT counters at 1, so for
\* any sequence of calls, two calls with the same input list return the
\* same output list, whatever lists were renamed in between, and the
\* input list itself is not modified.
C27_CountersLocalToCall ==
    \A i \in 1..Len(calls.log) :
        /\ calls.log[i].names = calls.log[i].arg
        /\ calls.log[i].new = RenameFrom(calls.log[i].arg, 1, NewCounters)
        /\ \A j \in 1..Len(calls.log) :
              calls.log[i].arg = calls.log[j].arg =>
                  calls.log[i].new = calls.log[j].new

\* the same list of an EOG channel renamed first and third, with a list
\* of two EOG channels renamed in between
C27_Witness ==
    /\ Len(calls.log) = 3
    /\ calls.log[1].arg = <<<<"E", "O", "G">>>>
    /\ calls.log[2].arg = <<<<"E", "O", "G">>, <<"E", "O", "G", "v">>>>
    /\ calls.log[3].arg = calls.log[1].arg
    /\ calls.log[3].new = <<V_EOG \o Fmt3d(1)>>

----------------------------------------------------------------------------
(* Constants of mne/fiff/bti/constants.py *)

FILE_MASK   == 2147483647
FILE_CURPOS == 8
FILE_END    == -8

CHTYPE_MEG       == 1
CHTYPE_EEG       == 2
CHTYPE_REFERENCE == 3
CHTYPE_EXTERNAL  == 4
CHTYPE_TRIGGER   == 5
CHTYPE_UTILITY   == 6
CHTYPE_DERIVED   == 7
CHTYPE_SHORTED   == 8

UB_B_MAG_INFO == <<"B", "_", "M", "a", "g", "_", "I", "n", "f", "o">>
UB_B_COH_POINTS == <<"B", "_", "C", "O", "H", "_", "P", "o", "i", "n", "t", "s">>
UB_B_CCP_XFM_BLOCK == <<"b", "_", "c", "c", "p", "_", "x", "f", "m", "_", "b", "l", "o", "c", "k">>
UB_B_EEG_LOCS == <<"b", "_", "e", "e", "g", "_", "e", "l", "e", "c", "_", "l", "o", "c", "s">>
UB_B_WHC_CHAN_MAP_VER == <<"B", "_", "W", "H", "C", "h", "a", "n", "M", "a", "p", "V", "e", "r">>
UB_B_WHC_CHAN_MAP == <<"B", "_", "W", "H", "C", "h", "a", "n", "M", "a", "p">>
UB_B_WHS_SUBSYS_VER == <<"B", "_", "W", "H", "S", "u", "b", "s", "y", "s", "V", "e", "r">>
UB_B_WHS_SUBSYS == <<"B", "_", "W", "H", "S", "u", "b", "s", "y", "s">>
UB_B_CH_LABELS == <<"B", "_", "c", "h", "_", "l", "a", "b", "e", "l", "s">>
UB_B_CALIBRATION == <<"B", "_", "C", "a", "l", "i", "b", "r", "a", "t", "i", "o", "n">>
UB_B_SYS_CONFIG_TIME == <<"B", "_", "S", "y", "s", "C", "o", "n", "f", "i", "g", "T", "i", "m", "e">>
UB_B_DELTA_ENABLED == <<"B", "_", "D", "E", "L", "T", "A", "_", "E", "N", "A", "B", "L", "E", "D">>
UB_B_E_TABLE_USED == <<"B", "_", "E", "_", "t", "a", "b", "l", "e", "_", "u", "s", "e", "d">>
UB_B_E_TABLE == <<"B", "_", "E", "_", "T", "A", "B", "L", "E">>
UB_B_WEIGHTS_USED == <<"B", "_", "w", "e", "i", "g", "h", "t", "s", "_", "u", "s", "e", "d">>
UB_B_TRIG_MASK == <<"B", "_", "t", "r", "i", "g", "_", "m", "a", "s", "k">>
UB_B_WEIGHT_TABLE == <<"B", "W", "T", "_">>

\* [v for k, v in BTI.items() if k[:5] == 'UB_B_']
KnownKinds ==
    { UB_B_MAG_INFO, UB_B_COH_POINTS, UB_B_CCP_XFM_BLOCK, UB_B_EEG_LOCS,
      UB_B_WHC_CHAN_MAP_VER, UB_B_WHC_CHAN_MAP, UB_B_WHS_SUBSYS_VER,
      UB_B_WHS_SUBSYS, UB_B_CH_LABELS, UB_B_CALIBRATION,
      UB_B_SYS_CONFIG_TIME, UB_B_DELTA_ENABLED, UB_B_E_TABLE_USED,
      UB_B_E_TABLE, UB_B_WEIGHTS_USED, UB_B_TRIG_MASK, UB_B_WEIGHT_TABLE }

----------------------------------------------------------------------------
(* Binary primitive reader: the byte widths of the read_* helpers *)

SZ_INT16     == 2
SZ_INT32     == 4
SZ_FLOAT     == 4
SZ_DOUBLE    == 8
SZ_TRANSFORM == 128     \* read_transform: a 4 x 4 matrix of doubles

\* _correct_offset: the stream position after the call, from the one before
CorrectOffset(current) ==
    IF (current % FILE_CURPOS) # 0
    THEN current + (FILE_CURPOS - (current % FILE_CURPOS))
    ELSE current

\* d[k] = v on a dict where a key that is present keeps its value
Put_KeepFirst(d, k, v) ==
    [x \in (DOMAIN d) \cup {k} |-> IF x \in DOMAIN d THEN d[x] ELSE v]

\* d[k] = v on a dict
Put(d, k, v) == [x \in (DOMAIN d) \cup {k} |-> IF x = k THEN v ELSE d[x]]

\* dict.update: the keys of upd override those of d
Update(d, upd) == upd @@ d

\* a list of n values read from the stream, their content left opaque
Opaque(n, what) == [k \in 1..n |-> what]

\* range(n) / xrange(n) runs max(n, 0) times
Times(n) == IF n < 0 THEN 0 ELSE n

----------------------------------------------------------------------------
(* read_config: the user-block decoder                                     *)
(*                                                                         *)
(* A user block of the file is a record of the values the decoder reads    *)
(* from it: kind, nbytes, user_space_size, and, used by the kinds that     *)
(* have them, entries / version / n_entries / n_e_values / n_anlg / n_dsp  *)
(* / filtername.  A decoder result is [ok, err, dta, nbytes, d]: the       *)
(* payload dictionary, the bytes consumed, and whether local d was bound.  *)

SZ_UB_HDR == 100    \* nbytes 4, kind 20, checksum 4, username 32,
                    \* timestamp 4, user_space_size 4, reserved 32

Decoded(dta, nbytes, d) ==
    [ok |-> TRUE, err |-> "", dta |-> dta, nbytes |-> nbytes, d |-> d]

Failed(err) ==
    [ok |-> FALSE, err |-> err, dta |-> <<>>, nbytes |-> 0, d |-> FALSE]

\* B_WHChanMapVer / B_WHSubsysVer
DecodeVer(blk) ==
    Decoded([version |-> 1, struct_size |-> 0, entries |-> blk.entries],
            3 * SZ_INT16 + 8, FALSE)

\* the loop over cfg.user_blocks.items() looking for the block named ver
LookupEntries(user_blocks, ver) ==
    IF ver \in DOMAIN user_blocks THEN user_blocks[ver].entries ELSE -1

\* B_WHChanMap without the num_channels is None test
DecodeChanMap_NoCheck(user_blocks) ==
    LET num_channels == LookupEntries(user_blocks, UB_B_WHC_CHAN_MAP_VER)
    IN  Decoded([channels |-> Opaque(Times(num_channels), "chan_map_entry")],
                Times(num_channels) * (5 * SZ_INT16 + 8),
                Times(num_channels) > 0)

\* B_WHChanMap
DecodeChanMap(user_blocks) ==
    IF UB_B_WHC_CHAN_MAP_VER \notin DOMAIN user_blocks
    THEN Failed("ValueError")
    ELSE LET num_channels == user_blocks[UB_B_WHC_CHAN_MAP_VER].entries
         IN  Decoded([channels |->
                          Opaque(Times(num_channels), "chan_map_entry")],
                     Times(num_channels) * (5 * SZ_INT16 + 8),
                     Times(num_channels) > 0)

\* B_WHSubsys
DecodeSubsys(user_blocks) ==
    IF UB_B_WHS_SUBSYS_VER \notin DOMAIN user_blocks
    THEN Failed("ValueError")
    ELSE LET num_subsys == user_blocks[UB_B_WHS_SUBSYS_VER].entries
         IN  Decoded([subsys |-> Opaque(Times(num_subsys), "subsys_entry")],
                     Times(num_subsys) *
                         (5 * SZ_INT16 + 2 + SZ_FLOAT + SZ_INT32
                          + 2 * SZ_INT16 + SZ_FLOAT),
                     Times(num_subsys) > 0)

\* B_E_table_used / B_E_TABLE
DecodeETable(blk) ==
    LET hdr == [version |-> blk.version, entry_size |-> 0,
                n_entries |-> blk.n_entries, filtername |-> blk.filtername,
                n_e_values |-> blk.n_e_values]
        hdrsize == 3 * SZ_INT32 + 16 + SZ_INT32 + 28
    IN  IF blk.version = 2
        THEN Decoded([hdr |-> hdr,
                      ch_names |-> Opaque(Times(blk.n_entries), "ch_name"),
                      e_ch_names |-> Opaque(Times(blk.n_e_values), "ch_name"),
                      etable |-> [rows |-> blk.n_entries,
                                  cols |-> blk.n_e_values]],
                     hdrsize + 16 * Times(blk.n_entries)
                     + 16 * Times(blk.n_e_values)
                     + SZ_FLOAT * Times(blk.n_entries) * Times(blk.n_e_values),
                     FALSE)
        ELSE Decoded([hdr |-> [hdr EXCEPT !.n_e_values = 6],
                      ch_names |-> Opaque(Times(blk.n_e_values), "WH2500"),
                      e_ch_names |-> Opaque(6, "ch_name"),
                      etable |-> [rows |-> blk.n_entries, cols |-> 6]],
                     CorrectOffset(hdrsize
                                   + SZ_FLOAT * Times(blk.n_entries) * 6),
                     FALSE)

\* B_weights_used, or the kind 'BWT_'
DecodeWeights(blk, d) ==
    LET hdr == [version |-> blk.version, entry_size |-> 0,
                n_entries |-> blk.n_entries, n_anlg |-> blk.n_anlg,
                n_dsp |-> blk.n_dsp]
        hdrsize == 3 * SZ_INT32 + 32 + 80 + 2 * SZ_INT32 + 72
    IN  IF blk.version = 2
        THEN Decoded([hdr |-> hdr,
                      ch_names |-> Opaque(Times(blk.n_entries), "ch_name"),
                      anlg_ch_names |-> Opaque(Times(blk.n_anlg), "ch_name"),
                      dsp_ch_names |-> Opaque(Times(blk.n_dsp), "ch_name"),
                      dsp_wts |-> [rows |-> blk.n_entries,
                                   cols |-> blk.n_dsp],
                      anlg_wts |-> [rows |-> blk.n_entries,
                                    cols |-> blk.n_anlg]],
                     hdrsize
                     + 16 * (Times(blk.n_entries) + Times(blk.n_anlg)
                             + Times(blk.n_dsp))
                     + SZ_FLOAT * Times(blk.n_entries) * Times(blk.n_dsp)
                     + SZ_INT16 * Times(blk.n_entries) * Times(blk.n_anlg),
                     FALSE)
        ELSE IF Times(blk.n_entries) > 0
        \* dta['anlg_wts'][d]: d is unbound, or the dict a previous block left
        THEN Failed(IF d THEN "IndexError" ELSE "NameError")
        ELSE Decoded([hdr |-> [hdr EXCEPT !.n_anlg = 3],
                      ch_names |-> <<>>,
                      anlg_ch_names |-> Opaque(3, "ch_name"),
                      dsp_ch_names |-> Opaque(5, "ch_name"),
                      anlg_wts |-> [rows |-> 0, cols |-> 3],
                      dsp_wts |-> [rows |-> 0, cols |-> blk.n_dsp]],
                     CorrectOffset(hdrsize), FALSE)

\* the else branch of the dispatch, reading nbytes in place of
\* user_space_size
DecodeUnknown_Nbytes(ub) ==
    Decoded([unknown |-> [hdr |-> Opaque(Times(ub.hdr.nbytes), "byte")]],
            Times(ub.hdr.nbytes), FALSE)

\* the else branch of the dispatch: an opaque blob of user_space_size bytes
DecodeUnknown(ub) ==
    Decoded([unknown |->
                [hdr |-> Opaque(Times(ub.hdr.user_space_size), "byte")]],
            Times(ub.hdr.user_space_size), FALSE)

\* the payload of a block of a known kind
DecodeKnown(kind, blk, user_blocks, d) ==
    IF kind = UB_B_MAG_INFO THEN
        Decoded([version |-> 1, headers |-> Opaque(6, "mag_info")],
                SZ_INT32 + 20 + 6 * (16 + SZ_TRANSFORM + SZ_FLOAT + 20), TRUE)
    ELSE IF kind = UB_B_COH_POINTS THEN
        Decoded([n_points |-> 0, status |-> 0,
                 points |-> Opaque(16, "coh_point")],
                2 * SZ_INT32 + 16 * (7 * SZ_DOUBLE), TRUE)
    ELSE IF kind = UB_B_CCP_XFM_BLOCK THEN
        Decoded([method |-> 0, transform |-> "transform"],
                SZ_INT32 + 4 + SZ_TRANSFORM, FALSE)
    ELSE IF kind = UB_B_EEG_LOCS THEN
        Decoded([electrodes |-> Opaque(Times(blk.entries), "electrode")],
                (Times(blk.entries) + 1) * (16 + 3 * SZ_DOUBLE), TRUE)
    ELSE IF kind \in {UB_B_WHC_CHAN_MAP_VER, UB_B_WHS_SUBSYS_VER} THEN
        DecodeVer(blk)
    ELSE IF kind = UB_B_WHC_CHAN_MAP THEN
        DecodeChanMap(user_blocks)
    ELSE IF kind = UB_B_WHS_SUBSYS THEN
        DecodeSubsys(user_blocks)
    ELSE IF kind = UB_B_CH_LABELS THEN
        Decoded([version |-> 1, entries |-> blk.entries,
                 labels |-> Opaque(Times(blk.entries), "label")],
                2 * SZ_INT32 + 16 + 16 * Times(blk.entries), FALSE)
    ELSE IF kind = UB_B_CALIBRATION THEN
        Decoded([sensor_no |-> 0, timestamp |-> 0, logdir |-> "logdir"],
                SZ_INT16 + 2 + SZ_INT32 + 256, FALSE)
    ELSE IF kind = UB_B_SYS_CONFIG_TIME THEN
        Decoded([sysconfig_name |-> "name", timestamp |-> 0],
                512 + SZ_INT32, FALSE)
    ELSE IF kind = UB_B_DELTA_ENABLED THEN
        Decoded([delta_enabled |-> 1], SZ_INT16, FALSE)
    ELSE IF kind \in {UB_B_E_TABLE_USED, UB_B_E_TABLE} THEN
        DecodeETable(blk)
    ELSE IF kind = UB_B_WEIGHTS_USED
            \/ Prefix(kind, 4) = UB_B_WEIGHT_TABLE THEN
        DecodeWeights(blk, d)
    ELSE IF kind = UB_B_TRIG_MASK THEN
        Decoded([version |-> 1, entries |-> blk.entries,
                 masks |-> Opaque(Times(blk.entries), "mask")],
                2 * SZ_INT32 + 16
                + Times(blk.entries) * (20 + 2 * SZ_INT16 + SZ_INT32 + 8),
                Times(blk.entries) > 0)
    ELSE
        Decoded(<<>>, 0, FALSE)

\* if kind in [known kinds]: ... else: unknown
DecodeBlock(kind, blk, ub, user_blocks, d) ==
    IF kind \in KnownKinds
    THEN DecodeKnown(kind, blk, user_blocks, d)
    ELSE DecodeUnknown(ub)

----------------------------------------------------------------------------
(* read_config: the pass over the file                                     *)
(*                                                                         *)
(* rc is the activation of read_config: pc (where it stands), err (the     *)
(* exception it raised), open (fid is open), pos (fid.tell()), hdr,        *)
(* transforms, user_blocks, channels (the fields of cfg), block (user      *)
(* blocks begun), kind (kind tag of the block read last) and d (local d    *)
(* is bound).                                                              *)

SZ_CFG_HDR == 112   \* the fixed header up to and including 'reserved'
SZ_CH_HDR  == 92    \* the fixed prefix of a per-channel config record
SZ_DEV_HDR == 40    \* dev_header: size 4, checksum 4, reserved 32
SZ_LOOP    == 104   \* one coil loop of a MEG / reference channel

NoConfigHdr == [total_chans |-> 0, total_sensors |-> 0, total_user_blocks |-> 0]

NewReadConfig ==
    [pc |-> "call", err |-> "", open |-> FALSE, pos |-> 0,
     hdr |-> NoConfigHdr, transforms |-> <<>>, user_blocks |-> <<>>,
     channels |-> <<>>, block |-> 0, kind |-> <<>>, d |-> FALSE]

\* where the pass continues: the user-block loop, the channel loop, return
NextPc(st) ==
    IF st.block < st.hdr.total_user_blocks THEN "blocks"
    ELSE IF Len(st.channels) < st.hdr.total_chans THEN "channels"
    ELSE "return"

\* open the file, read the fixed header and the per-sensor transforms
HeaderStep(st, h) ==
    LET st1 == [st EXCEPT
                  !.open = TRUE,
                  !.hdr = h,
                  !.transforms = Opaque(Times(h.total_sensors), "transform"),
                  !.pos = SZ_CFG_HDR + SZ_TRANSFORM * Times(h.total_sensors)]
    IN  [st1 EXCEPT !.pc = NextPc(st1)]

Raise(st, err) == [st EXCEPT !.pc = "raised", !.err = err]

\* one pass of the user-block loop with the empty-kind test left out
BlockStep_NoEmptyTest(st, blk) ==
    LET pos1 == CorrectOffset(st.pos + SZ_UB_HDR)
        kind == blk.kind
        ub   == [hdr |-> [nbytes |-> blk.nbytes,
                          user_space_size |-> blk.user_space_size]]
        st1  == [st EXCEPT !.pos = pos1, !.kind = kind, !.block = @ + 1]
        blocks1 == Put(st.user_blocks, kind, ub)
        r == DecodeBlock(kind, blk, ub, blocks1, st.d)
    IN  IF ~r.ok
        THEN Raise([st1 EXCEPT !.user_blocks = blocks1], r.err)
        ELSE LET st2 == [st1 EXCEPT
                           !.user_blocks = Put(blocks1, kind, Update(ub, r.dta)),
                           !.pos = CorrectOffset(pos1 + r.nbytes),
                           !.d = st.d \/ r.d]
             IN  [st2 EXCEPT !.pc = NextPc(st2)]

\* one pass of the user-block loop, on the block blk of the file
BlockStep(st, blk) ==
    LET pos1 == CorrectOffset(st.pos + SZ_UB_HDR)
        kind == blk.kind
        ub   == [hdr |-> [nbytes |-> blk.nbytes,
                          user_space_size |-> blk.user_space_size]]
        st1  == [st EXCEPT !.pos = pos1, !.kind = kind, !.block = @ + 1]
    IN  IF kind = <<>>
        THEN Raise(st1, "RuntimeError")
        ELSE LET blocks1 == Put(st.user_blocks, kind, ub)
                 r == DecodeBlock(kind, blk, ub, blocks1, st.d)
             IN  IF ~r.ok
                 THEN Raise([st1 EXCEPT !.user_blocks = blocks1], r.err)
                 ELSE LET st2 == [st1 EXCEPT
                                    !.user_blocks =
                                        Put(blocks1, kind, Update(ub, r.dta)),
                                    !.pos = CorrectOffset(pos1 + r.nbytes),
                                    !.d = st.d \/ r.d]
                      IN  [st2 EXCEPT !.pc = NextPc(st2)]

\* the type-dependent part of a per-channel record: [dta, nbytes]
ChannelData(ch) ==
    IF ch.ch_type \in {CHTYPE_MEG, CHTYPE_REFERENCE} THEN
        [dta |-> [dev |-> [transform |-> ch.transform,
                           total_loops |-> ch.total_loops],
                  loops |-> Opaque(Times(ch.total_loops), "loop")],
         nbytes |-> SZ_DEV_HDR + SZ_FLOAT + 4 + SZ_TRANSFORM + 2 * SZ_INT16
                    + 4 + 32 + SZ_LOOP * Times(ch.total_loops)]
    ELSE IF ch.ch_type = CHTYPE_EEG THEN
        [dta |-> [device_info |-> "dev_header", transform |-> ch.transform],
         nbytes |-> SZ_DEV_HDR + SZ_FLOAT + 4 + SZ_TRANSFORM + 32]
    ELSE IF ch.ch_type = CHTYPE_EXTERNAL THEN
        [dta |-> [device_info |-> "dev_header"],
         nbytes |-> SZ_DEV_HDR + SZ_INT32 + 32]
    ELSE IF ch.ch_type = CHTYPE_TRIGGER THEN
        [dta |-> [device_info |-> "dev_header"],
         nbytes |-> SZ_DEV_HDR + SZ_INT32 + 2 + 32]
    ELSE IF ch.ch_type \in {CHTYPE_UTILITY, CHTYPE_DERIVED} THEN
        [dta |-> [device_info |-> "dev_header"],
         nbytes |-> SZ_DEV_HDR + SZ_INT32 + 32]
    ELSE IF ch.ch_type = CHTYPE_SHORTED THEN
        [dta |-> [device_info |-> "dev_header"],
         nbytes |-> SZ_DEV_HDR + 32]
    ELSE
        [dta |-> <<>>, nbytes |-> 0]

\* one pass of the per-channel loop without the _correct_offset that ends it
ChannelStep_NoAlign(st, ch) ==
    LET rec  == [name |-> ch.name, chan_no |-> ch.chan_no,
                 ch_type |-> ch.ch_type, gain |-> ch.gain,
                 units_per_bit |-> ch.units_per_bit]
        pos1 == CorrectOffset(st.pos + SZ_CH_HDR)
        cd   == ChannelData(ch)
        st1  == [st EXCEPT
                   !.channels = Append(@, Update(rec, cd.dta)),
                   !.pos = pos1 + cd.nbytes]
    IN  [st1 EXCEPT !.pc = NextPc(st1)]

\* one pass of the per-channel loop, on the channel record ch of the file
ChannelStep(st, ch) ==
    LET rec  == [name |-> ch.name, chan_no |-> ch.chan_no,
                 ch_type |-> ch.ch_type, gain |-> ch.gain,
                 units_per_bit |-> ch.units_per_bit]
        pos1 == CorrectOffset(st.pos + SZ_CH_HDR)
        cd   == ChannelData(ch)
        st1  == [st EXCEPT
                   !.channels = Append(@, Update(rec, cd.dta)),
                   !.pos = CorrectOffset(pos1 + cd.nbytes)]
    IN  [st1 EXCEPT !.pc = NextPc(st1)]

\* return cfg
ReturnStep(st) == [st EXCEPT !.pc = "returned"]

RECURSIVE RunConfig(_, _)
\* the pass from state st to its end on the file f = [hdr, blocks, channels]
RunConfig(st, f) ==
    IF st.pc = "call" THEN RunConfig(HeaderStep(st, f.hdr), f)
    ELSE IF st.pc = "blocks" THEN
        RunConfig(BlockStep(st, f.blocks[st.block + 1]), f)
    ELSE IF st.pc = "channels" THEN
        RunConfig(ChannelStep(st, f.channels[Len(st.channels) + 1]), f)
    ELSE IF st.pc = "return" THEN ReturnStep(st)
    ELSE st

\* read_config(fname) on the file f
read_config(f) == RunConfig(NewReadConfig, f)

----------------------------------------------------------------------------
(* Inputs of read_config *)

MaxBlocks   == 3    \* most user blocks a config header declares
MaxSensors  == 1    \* most per-sensor transforms a config header declares
MaxCfgChans == 1    \* most per-channel records a config header declares

EntryCounts    == {0, 3}    \* 'entries' values of the version blocks
UserSpaceSizes == {0, 5}    \* user_space_size values of unknown blocks

UB_UNKNOWN == <<"f", "o", "o">>

Blk(kind, size, entries) ==
    [kind |-> kind, nbytes |-> size + SZ_UB_HDR, user_space_size |-> size,
     entries |-> entries, version |-> 2, n_entries |-> 0, n_e_values |-> 0,
     n_anlg |-> 0, n_dsp |-> 0, filtername |-> <<>>]

BlockPool ==
    {Blk(UB_B_WHC_CHAN_MAP_VER, 16, e) : e \in EntryCounts}
    \cup {Blk(UB_B_WHS_SUBSYS_VER, 16, e) : e \in EntryCounts}
    \cup {Blk(UB_B_WHC_CHAN_MAP, 56, 0), Blk(UB_B_WHS_SUBSYS, 88, 0),
          Blk(UB_B_DELTA_ENABLED, 2, 0), Blk(<<>>, 0, 0)}
    \cup {Blk(UB_UNKNOWN, s, 0) : s \in UserSpaceSizes}

ConfigHeaders ==
    [total_chans : 0..MaxCfgChans, total_sensors : 0..MaxSensors,
     total_user_blocks : 0..MaxBlocks]

CfgChan(name, chan_no, ch_type, gain, upb, transform) ==
    [name |-> name, chan_no |-> chan_no, ch_type |-> ch_type, gain |-> gain,
     units_per_bit |-> upb, transform |-> transform,
     total_loops |-> IF ch_type = CHTYPE_MEG THEN 1 ELSE 0]

CfgChanPool ==
    { CfgChan(<<"A", "1">>, 1, CHTYPE_MEG, 4, 8, "T1"),
      CfgChan(<<"E", "1">>, 2, CHTYPE_EEG, 1, 1, "T2"),
      CfgChan(N_TRIGGER, 3, CHTYPE_TRIGGER, 1, 1, "none") }

----------------------------------------------------------------------------
(* read_config as a state machine: the file is read front to back, each    *)
(* step drawing the next header, user block or channel record of the file  *)

InitConfig ==
    /\ IdleRename
    /\ rc = NewReadConfig
    /\ pdf = NoPdf
    /\ hd = [pc |-> "idle"]
    /\ IdleData
    /\ IdleRaw

ReadConfigHeader ==
    /\ rc.pc = "call"
    /\ \E h \in ConfigHeaders : rc' = HeaderStep(rc, h)
    /\ UNCHANGED <<renameVars, headerVars, dataVars, raw>>

ReadUserBlock ==
    /\ rc.pc = "blocks"
    /\ \E blk \in BlockPool : rc' = BlockStep(rc, blk)
    /\ UNCHANGED <<renameVars, headerVars, dataVars, raw>>

ReadChannelConfig ==
    /\ rc.pc = "channels"
    /\ \E ch \in CfgChanPool : rc' = ChannelStep(rc, ch)
    /\ UNCHANGED <<renameVars, headerVars, dataVars, raw>>

ReturnConfig ==
    /\ rc.pc = "return"
    /\ rc' = ReturnStep(rc)
    /\ UNCHANGED <<renameVars, headerVars, dataVars, raw>>

NextConfig ==
    \/ ReadConfigHeader
    \/ ReadUserBlock
    \/ ReadChannelConfig
    \/ ReturnConfig

SpecConfig == InitConfig /\ [][NextConfig]_vars

----------------------------------------------------------------------------
(* Claims about read_config, checked under SpecConfig *)

\* the step reads one user block (header, and payload unless it raises)
UserBlockRead == rc.pc = "blocks" /\ rc'.block = rc.block + 1

\* C7: a B_WHChanMap block reads exactly as many channel-map entries as
\* the 'entries' of the B_WHChanMapVer block parsed earlier in the pass,
\* and a B_WHSubsys block as many as B_WHSubsysVer declares; with no
\* version block parsed before the table block, decoding fails with an
\* error and no config is returned.
C7_TableLengthFromVersionBlock ==
    [][ /\ (UserBlockRead /\ rc'.kind = UB_B_WHC_CHAN_MAP) =>
              IF UB_B_WHC_CHAN_MAP_VER \in DOMAIN rc.user_blocks
              THEN /\ rc'.pc # "raised"
                   /\ Len(rc'.user_blocks[UB_B_WHC_CHAN_MAP].channels)
                        = rc.user_blocks[UB_B_WHC_CHAN_MAP_VER].entries
              ELSE /\ rc'.pc = "raised"
                   /\ rc'.err = "ValueError"
        /\ (UserBlockRead /\ rc'.kind = UB_B_WHS_SUBSYS) =>
              IF UB_B_WHS_SUBSYS_VER \in DOMAIN rc.user_blocks
              THEN /\ rc'.pc # "raised"
                   /\ Len(rc'.user_blocks[UB_B_WHS_SUBSYS].subsys)
                        = rc.user_blocks[UB_B_WHS_SUBSYS_VER].entries
              ELSE /\ rc'.pc = "raised"
                   /\ rc'.err = "ValueError"
        /\ rc.pc = "raised" => rc'.pc = "raised"
      ]_vars

\* a channel map of three entries read after a version block declaring 3
C7_Witness ==
    /\ rc.pc \in {"blocks", "channels", "return", "returned"}
    /\ rc.kind = UB_B_WHC_CHAN_MAP
    /\ UB_B_WHC_CHAN_MAP_VER \in DOMAIN rc.user_blocks
    /\ rc.user_blocks[UB_B_WHC_CHAN_MAP_VER].entries = 3
    /\ Len(rc.user_blocks[UB_B_WHC_CHAN_MAP].channels) = 3

\* C8: a user block whose kind is non-empty and not a known kind is never
\* rejected: it is stored under its kind with an opaque payload of exactly
\* user_space_size bytes (no more bytes are consumed), and decoding
\* continues with the next block.
C8_UnknownKindStoredOpaque ==
    [][ (UserBlockRead /\ rc'.kind # <<>> /\ rc'.kind \notin KnownKinds) =>
            /\ rc'.pc \in {"blocks", "channels", "return"}
            /\ rc'.kind \in DOMAIN rc'.user_blocks
            /\ LET ub == rc'.user_blocks[rc'.kind]
               IN  /\ DOMAIN ub = {"hdr", "unknown"}
                   /\ Len(ub.unknown.hdr) = ub.hdr.user_space_size
                   /\ rc'.pos = CorrectOffset(CorrectOffset(rc.pos + SZ_UB_HDR)
                                              + ub.hdr.user_space_size)
      ]_vars

\* an unknown block with a payload of 5 bytes was stored and the decoder
\* went on to read another block after it
C8_Witness ==
    /\ rc.pc \in {"blocks", "channels", "return", "returned"}
    /\ UB_UNKNOWN \in DOMAIN rc.user_blocks
    /\ "unknown" \in DOMAIN rc.user_blocks[UB_UNKNOWN]
    /\ Len(rc.user_blocks[UB_UNKNOWN].unknown.hdr) = 5
    /\ rc.kind # UB_UNKNOWN

\* C9: a user block whose kind tag reads as empty is fatal: decoding
\* stops with an error at that block, before any payload of the block is
\* read and before the block enters the block dictionary, and no config
\* is returned.
C9_EmptyKindIsFatal ==
    [][ /\ (UserBlockRead /\ rc'.kind = <<>>) =>
              /\ rc'.pc = "raised"
              /\ rc'.err = "RuntimeError"
              /\ rc'.user_blocks = rc.user_blocks
              /\ rc'.pos = CorrectOffset(rc.pos + SZ_UB_HDR)
        /\ rc.pc = "raised" => rc'.pc = "raised"
      ]_vars

\* the decoder stopped at an empty kind tag after it had stored a block
C9_Witness ==
    /\ rc.pc = "raised"
    /\ rc.err = "RuntimeError"
    /\ rc.kind = <<>>
    /\ rc.block >= 2
    /\ DOMAIN rc.user_blocks # {}
    /\ <<>> \notin DOMAIN rc.user_blocks

MaxOffset == 40     \* stream positions 0..MaxOffset given to _correct_offset

\* C20: _correct_offset aligns the stream to 8 bytes: from every position
\* p it leaves the stream at the smallest multiple of 8 that is >= p (at p
\* itself when p is a multiple of 8, never before p, never more than 7
\* after it); and read_config applies it after every user block and every
\* per-channel record, so each user block and each channel record starts
\* at a multiple of 8, as does whatever follows the last one.
C20_OffsetsAlignedTo8 ==
    /\ \A p \in 0..MaxOffset :
          LET q == CorrectOffset(p)
          IN  /\ q % 8 = 0
              /\ q >= p
              /\ q - p <= 7
              /\ p % 8 = 0 => q = p
              /\ \A m \in p..q : m % 8 = 0 => m = q
    /\ rc.pc \in {"blocks", "channels", "return", "returned"}
          => rc.pos % 8 = 0

\* a channel record about to be read after an unknown block of 5 bytes
C20_Witness ==
    /\ rc.pc = "channels"
    /\ UB_UNKNOWN \in DOMAIN rc.user_blocks
    /\ rc.user_blocks[UB_UNKNOWN].hdr.user_space_size = 5
    /\ rc.pos > SZ_CFG_HDR

----------------------------------------------------------------------------
(* read_config on whole files: config is the file, rc what the call came to *)

\* a config file: its header declares what the file holds
ConfigFile(n_sensors, blocks, channels) ==
    [hdr |-> [total_chans |-> Len(channels), total_sensors |-> n_sensors,
              total_user_blocks |-> Len(blocks)],
     blocks |-> blocks, channels |-> channels]

\* blocks of kinds the decoder knows and does not know, one kind in two
\* sizes, and the two kinds of weight tables
\* the kind of a weight table named mytable
BWT_mytable == UB_B_WEIGHT_TABLE \o <<"m", "y", "t", "a", "b", "l", "e">>

FileBlockPool ==
    {Blk(UB_UNKNOWN, s, 0) : s \in UserSpaceSizes}
    \cup {Blk(UB_B_DELTA_ENABLED, 2, 0), Blk(UB_B_WEIGHTS_USED, 204, 0),
          Blk(BWT_mytable, 204, 0)}

InitConfigFile ==
    /\ IdleRename
    /\ rc = NewReadConfig
    /\ pdf = NoPdf
    /\ hd = [pc |-> "idle"]
    /\ config \in { ConfigFile(n, b, c) :
                      n \in 0..MaxSensors,
                      b \in SeqsUpTo(FileBlockPool, MaxBlocks),
                      c \in SeqsUpTo(CfgChanPool, MaxCfgChans) }
    /\ rd = [pc |-> "idle"]
    /\ IdleRaw

ReadConfigFile ==
    /\ rc.pc = "call"
    /\ rc' = read_config(config)
    /\ UNCHANGED <<renameVars, headerVars, dataVars, raw>>

NextConfigFile == ReadConfigFile

SpecConfigFile == InitConfigFile /\ [][NextConfigFile]_vars

\* the position in the file of the last user block of the kind
LastOfKind(kind) ==
    CHOOSE i \in 1..Len(config.blocks) :
        /\ config.blocks[i].kind = kind
        /\ \A j \in (i + 1)..Len(config.blocks) : config.blocks[j].kind # kind

\* C23: in every config returned by read_config, the list of per-sensor
\* transforms has exactly the header's total_sensors entries, the list of
\* per-channel config records has exactly the header's total_chans
\* entries, and the block dictionary holds at most total_user_blocks
\* entries: one per kind of the file, that of the last block of the kind.
C23_ConfigCounts ==
    rc.pc = "returned" =>
        /\ Len(rc.transforms) = config.hdr.total_sensors
        /\ Len(rc.channels) = config.hdr.total_chans
        /\ \A k \in 1..Len(rc.channels) :
              rc.channels[k].name = config.channels[k].name
        /\ Cardinality(DOMAIN rc.user_blocks) <= config.hdr.total_user_blocks
        /\ DOMAIN rc.user_blocks =
              {config.blocks[i].kind : i \in 1..Len(config.blocks)}
        \* (the payload header of a weight table replaces the block header)
        /\ \A kind \in DOMAIN rc.user_blocks :
              LET blk == config.blocks[LastOfKind(kind)]
                  hdr == rc.user_blocks[kind].hdr
              IN  "nbytes" \in DOMAIN hdr =>
                      /\ hdr.nbytes = blk.nbytes
                      /\ hdr.user_space_size = blk.user_space_size

\* a file of three blocks, the unknown kind first with 5 bytes and last
\* with none, one sensor and one channel
C23_Witness ==
    /\ rc.pc = "returned"
    /\ config.hdr.total_user_blocks = 3
    /\ config.blocks[1] = Blk(UB_UNKNOWN, 5, 0)
    /\ config.blocks[3] = Blk(UB_UNKNOWN, 0, 0)
    /\ Cardinality(DOMAIN rc.user_blocks) = 2
    /\ Len(rc.transforms) = 1
    /\ Len(rc.channels) = 1

\* the keys of a block decoded with the weight-table schema
WeightTableKeys ==
    {"hdr", "ch_names", "anlg_ch_names", "dsp_ch_names", "dsp_wts",
     "anlg_wts"}

\* C29: in read_config, a user block whose kind starts with the
\* weight-table prefix "BWT_" (e.g. "BWT_mytable") is decoded with the
\* weight-table schema (header, channel names, DSP and analog weight
\* matrices), exactly like a "B_weights_used" block, and not stored as an
\* opaque unknown block.
C29_WeightTablePrefix ==
    (rc.pc = "returned" /\ BWT_mytable \in DOMAIN rc.user_blocks) =>
        LET ub == rc.user_blocks[BWT_mytable]
            like == read_config(ConfigFile(0,
                        <<Blk(UB_B_WEIGHTS_USED, 204, 0)>>, <<>>))
        IN  /\ "unknown" \notin DOMAIN ub
            /\ WeightTableKeys \subseteq DOMAIN ub
            /\ ub = like.user_blocks[UB_B_WEIGHTS_USED]

----------------------------------------------------------------------------
(* _read_bti_header                                                        *)
(*                                                                         *)
(* A PDF is the record of what the decoder reads from it: start (the       *)
(* position of the 8-byte trailer, file size - 8), header_position (the    *)
(* trailer value), the fixed header fields, the sub-records and the        *)
(* stored sample matrix.  Python integers are unbounded; the positions of  *)
(* the model stay below 2^31, and the two expressions that would reach     *)
(* 2^31 are written in an equivalent form that does not.                   *)

SZ_PDF_HDR   == 92      \* fixed header, up to and including seek(20, 1)
SZ_EPOCH     == 56      \* _read_epoch
SZ_CHANNEL   == 104     \* _read_channel
SZ_EVENT     == 66      \* _read_event, before its _correct_offset
SZ_PROCESS   == 356     \* _read_process, before its _correct_offset
SZ_ASSOC     == 40      \* _read_assoc_file
SZ_EDCLASS   == 72      \* _read_pfid_ed

\* header_position & BTI.FILE_MASK, for -2^31 <= header_position < 2^31
MaskFileMask(header_position) ==
    IF header_position >= 0 THEN header_position
    ELSE (header_position + FILE_MASK) + 1

\* (start + BTI.FILE_CURPOS - check_value) <= BTI.FILE_MASK
BoundCheck(start, check_value) ==
    start - check_value <= FILE_MASK - FILE_CURPOS

\* lines 735-741 with the bound check taken as always satisfied
HeaderOffset_Unchecked(start, header_position) ==
    LET check_value == MaskFileMask(header_position)
    IN  [bound |-> TRUE, hdr_pos |-> CorrectOffset(check_value)]

\* lines 735-741: hdr_pos, or no binding of hdr_pos at all
HeaderOffset(start, header_position) ==
    LET check_value == MaskFileMask(header_position)
    IN  IF BoundCheck(start, check_value)
        THEN [bound |-> TRUE, hdr_pos |-> CorrectOffset(check_value)]
        ELSE [bound |-> FALSE, hdr_pos |-> -1]

\* a read of n bytes at pos fits in the file whose trailer is at start
\* (pos + n <= start + 8)
ReadFits(pos, n, start) == pos - start <= FILE_CURPOS - n

RECURSIVE AfterRecords(_, _, _)
\* the position after n records of sz bytes, each followed by _correct_offset
AfterRecords(pos, n, sz) ==
    IF n <= 0 THEN pos ELSE AfterRecords(CorrectOffset(pos + sz), n - 1, sz)

\* the position after the whole header, read from hdr_pos
HeaderEnd(hdr_pos, f) ==
    LET p0 == CorrectOffset(hdr_pos + SZ_PDF_HDR)
        p1 == p0 + SZ_EPOCH * Len(f.epochs) + SZ_CHANNEL * Len(f.chs)
        p2 == AfterRecords(p1, f.total_events, SZ_EVENT)
        p3 == AfterRecords(p2, f.total_processes, SZ_PROCESS)
    IN  p3 + SZ_ASSOC * Times(f.total_associated_files)
           + SZ_EDCLASS * Times(f.total_ed_classes)

\* the length of the header (hdr_pos is a multiple of 8)
HeaderLen(f) == HeaderEnd(0, f)

RECURSIVE SumPts(_)
\* sum(e['pts_in_epoch'] for e in info['epochs'])
SumPts(epochs) ==
    IF Len(epochs) = 0 THEN 0 ELSE Head(epochs) + SumPts(Tail(epochs))

\* DTYPES[data_format].itemsize with every dtype taken as 4 bytes wide
ItemSize_FourBytes(data_format) ==
    CASE data_format \in 1..4 -> 4

\* DTYPES[data_format].itemsize: 'i2', 'i4', 'f4', 'f8'
ItemSize(data_format) ==
    CASE data_format = 1 -> 2
      [] data_format = 2 -> 4
      [] data_format = 3 -> 4
      [] data_format = 4 -> 8

DTypeName(data_format) ==
    CASE data_format = 1 -> "i2"
      [] data_format = 2 -> "i4"
      [] data_format = 3 -> "f4"
      [] data_format = 4 -> "f8"

NoInfo == [data_format |-> 0]

\* the state of one call before its first statement
NewReadHeader ==
    [pc |-> "call", err |-> "", bound |-> FALSE, hdr_pos |-> -1, pos |-> 0,
     info |-> NoInfo]

RaiseHeader(st, err) == [st EXCEPT !.pc = "raised", !.err = err]

\* HeaderNextPc with the channel records read before the epoch records
HeaderNextPc_ChannelsFirst(st) ==
    LET i == st.info
    IN  IF Len(i.chs) < i.total_chans THEN "chs"
        ELSE IF Len(i.epochs) < i.total_epochs THEN "epochs"
        ELSE IF Len(i.events) < i.total_events THEN "events"
        ELSE IF Len(i.processes) < i.total_processes THEN "processes"
        ELSE IF Len(i.assocfiles) < i.total_associated_files
             THEN "assocfiles"
        ELSE IF Len(i.edclasses) < i.total_ed_classes THEN "edclasses"
        ELSE "finish"

\* the list comprehension the call is in: the first of the six whose list
\* is shorter than its declared count, in the order of lines 772-788
HeaderNextPc(st) ==
    LET i == st.info
    IN  IF Len(i.epochs) < i.total_epochs THEN "epochs"
        ELSE IF Len(i.chs) < i.total_chans THEN "chs"
        ELSE IF Len(i.events) < i.total_events THEN "events"
        ELSE IF Len(i.processes) < i.total_processes THEN "processes"
        ELSE IF Len(i.assocfiles) < i.total_associated_files
             THEN "assocfiles"
        ELSE IF Len(i.edclasses) < i.total_ed_classes THEN "edclasses"
        ELSE "finish"

\* lines 732-771: locate the header, read its fixed part, align
FixedHeaderStep(st, f) ==
    LET loc == HeaderOffset(f.start, f.header_position)
        st1 == [st EXCEPT !.bound = loc.bound, !.hdr_pos = loc.hdr_pos]
    IN  IF ~loc.bound THEN
            \* hdr_pos is read at line 740 without having been assigned
            RaiseHeader(st1, "UnboundLocalError")
        ELSE IF ~ReadFits(loc.hdr_pos, SZ_PDF_HDR, f.start) THEN
            \* a read_* past the end of the file
            RaiseHeader(st1, "FormatError")
        ELSE
            LET st2 == [st1 EXCEPT
                  !.pos = CorrectOffset(loc.hdr_pos + SZ_PDF_HDR),
                  !.info =
                     [data_format |-> f.data_format,
                      start |-> f.start,
                      total_epochs |-> Len(f.epochs),
                      total_chans |-> Len(f.chs),
                      total_events |-> f.total_events,
                      total_processes |-> f.total_processes,
                      total_associated_files |-> f.total_associated_files,
                      total_ed_classes |-> f.total_ed_classes,
                      epochs |-> <<>>, chs |-> <<>>, events |-> <<>>,
                      processes |-> <<>>, assocfiles |-> <<>>,
                      edclasses |-> <<>>]]
            IN  [st2 EXCEPT !.pc = HeaderNextPc(st2)]

\* one record of sz bytes read at st.pos and appended to the list `field`;
\* the stream is then at `after`
RecordStep(st, f, sz, field, rec, after) ==
    IF ~ReadFits(st.pos, sz, f.start) THEN RaiseHeader(st, "FormatError")
    ELSE LET st1 == [st EXCEPT !.pos = after,
                               !.info[field] = Append(@, rec)]
         IN  [st1 EXCEPT !.pc = HeaderNextPc(st1)]

\* _read_epoch, once
EpochStep(st, f) ==
    RecordStep(st, f, SZ_EPOCH, "epochs",
               [pts_in_epoch |-> f.epochs[Len(st.info.epochs) + 1]],
               st.pos + SZ_EPOCH)

\* _read_channel, once
ChannelRecordStep(st, f) ==
    RecordStep(st, f, SZ_CHANNEL, "chs", f.chs[Len(st.info.chs) + 1],
               st.pos + SZ_CHANNEL)

\* _read_event, once
EventStep(st, f) ==
    RecordStep(st, f, SZ_EVENT, "events", "event",
               CorrectOffset(st.pos + SZ_EVENT))

\* _read_process, once
ProcessStep(st, f) ==
    RecordStep(st, f, SZ_PROCESS, "processes", "process",
               CorrectOffset(st.pos + SZ_PROCESS))

\* _read_assoc_file, once
AssocFileStep(st, f) ==
    RecordStep(st, f, SZ_ASSOC, "assocfiles", "assocfile",
               st.pos + SZ_ASSOC)

\* _read_pfid_ed, once
EdClassStep(st, f) ==
    RecordStep(st, f, SZ_EDCLASS, "edclasses", "edclass",
               st.pos + SZ_EDCLASS)

\* lines 790-801: the derived fields, and the return
HeaderFinishStep(st) ==
    IF st.info.data_format \notin 1..4 THEN RaiseHeader(st, "KeyError")
    ELSE [st EXCEPT
            !.pc = "returned",
            !.info = [total_slices |->
                          SumPts([k \in 1..Len(st.info.epochs) |->
                                     st.info.epochs[k].pts_in_epoch]),
                      dtype |-> DTypeName(st.info.data_format),
                      bytes_per_slice |-> ItemSize(st.info.data_format)
                                              * st.info.total_chans]
                     @@ st.info]

RECURSIVE RunHeader(_, _)
\* the call from state st to its end on the PDF f
RunHeader(st, f) ==
    IF st.pc = "call" THEN RunHeader(FixedHeaderStep(st, f), f)
    ELSE IF st.pc = "epochs" THEN RunHeader(EpochStep(st, f), f)
    ELSE IF st.pc = "chs" THEN RunHeader(ChannelRecordStep(st, f), f)
    ELSE IF st.pc = "events" THEN RunHeader(EventStep(st, f), f)
    ELSE IF st.pc = "processes" THEN RunHeader(ProcessStep(st, f), f)
    ELSE IF st.pc = "assocfiles" THEN RunHeader(AssocFileStep(st, f), f)
    ELSE IF st.pc = "edclasses" THEN RunHeader(EdClassStep(st, f), f)
    ELSE IF st.pc = "finish" THEN HeaderFinishStep(st)
    ELSE st

\* _read_bti_header(fid) on the PDF f: [ok, err, bound, hdr_pos, info]
read_bti_header(f) ==
    LET st == RunHeader(NewReadHeader, f)
    IN  [ok |-> st.pc = "returned", err |-> st.err, bound |-> st.bound,
         hdr_pos |-> st.hdr_pos,
         info |-> IF st.pc = "returned" THEN st.info ELSE NoInfo]

----------------------------------------------------------------------------
(* _read_bti_header as a state machine: one call on one file *)

Pdf(start, header_position, data_format, epochs, chs, samples) ==
    [start |-> start, header_position |-> header_position,
     data_format |-> data_format, epochs |-> epochs, chs |-> chs,
     total_events |-> 0, total_processes |-> 1,
     total_associated_files |-> 0, total_ed_classes |-> 0,
     samples |-> samples]

PdfChan(chan_no, scale) == [chan_no |-> chan_no, scale |-> scale]

\* trailer positions: small files, and files of 2 GiB
HeaderStarts == {56, 600, 1000, 2147483640, 2147483647}

\* trailer values: plain offsets, unaligned offsets, offsets past the end
\* of the small files, and offsets with the sign bit set
HeaderPositions ==
    {0, 5, 8, 64, 1001, 100000,
     (-2147483647 - 1), (-2147483647 - 1) + 5, (-2147483647 - 1) + 64}

HeaderFormats == 0..5

PdfHeaderPool ==
    { Pdf(st, hp, fmt, ep, ch, <<>>) :
        st \in HeaderStarts, hp \in HeaderPositions, fmt \in HeaderFormats,
        ep \in {<<>>, <<2>>, <<2, 3>>},
        ch \in {<<>>, <<PdfChan(1, 2)>>, <<PdfChan(1, 2), PdfChan(2, 3)>>} }

InitHeader ==
    /\ IdleRename
    /\ rc = [pc |-> "idle"]
    /\ pdf \in PdfHeaderPool
    /\ hd = [pc |-> "call"]
    /\ IdleData
    /\ IdleRaw

ReadBtiHeader ==
    /\ hd.pc = "call"
    /\ hd' = [pc |-> "done", res |-> read_bti_header(pdf)]
    /\ UNCHANGED <<renameVars, rc, pdf, dataVars, raw>>

NextHeader == ReadBtiHeader

SpecHeader == InitHeader /\ [][NextHeader]_vars

\* C10: the header is located at the trailer value masked with 0x7FFFFFFF
\* and rounded up to the next multiple of 8, and for every trailer value
\* and file size the call fails with a format error (never with an
\* undefined header offset) when the bound check on the candidate fails or
\* the resulting offset lies outside the file.
C10_BadHeaderOffsetIsFormatError ==
    hd.pc = "done" =>
        LET check_value == MaskFileMask(pdf.header_position)
            hdr_pos == CorrectOffset(check_value)
        IN  /\ hd.res.ok => hd.res.hdr_pos = hdr_pos
            /\ (\/ ~BoundCheck(pdf.start, check_value)
                \/ hdr_pos - pdf.start >= FILE_CURPOS) =>
                   /\ ~hd.res.ok
                   /\ hd.res.err = "FormatError"

\* C21: in every header returned by _read_bti_header, total_slices is the
\* sum of pts_in_epoch over the epoch records, dtype is int16 / int32 /
\* float32 / float64 for data_format 1 / 2 / 3 / 4, and bytes_per_slice is
\* the item size of the dtype (2 / 4 / 4 / 8) times total_chans; for a
\* data_format outside 1..4 no header is returned.
C21_DerivedHeaderFields ==
    hd.pc = "done" =>
        /\ hd.res.ok =>
             LET info == hd.res.info
                 fmt == pdf.data_format
             IN  /\ info.total_slices = SumPts(pdf.epochs)
                 /\ fmt = 1 => info.dtype = "i2"
                            /\ info.bytes_per_slice = 2 * info.total_chans
                 /\ fmt = 2 => info.dtype = "i4"
                            /\ info.bytes_per_slice = 4 * info.total_chans
                 /\ fmt = 3 => info.dtype = "f4"
                            /\ info.bytes_per_slice = 4 * info.total_chans
                 /\ fmt = 4 => info.dtype = "f8"
                            /\ info.bytes_per_slice = 8 * info.total_chans
                 /\ info.total_chans = Len(pdf.chs)
        /\ pdf.data_format \notin 1..4 => ~hd.res.ok

\* a header of two epochs (2 + 3 slices) and two channels of doubles
C21_Witness ==
    /\ hd.pc = "done"
    /\ hd.res.ok
    /\ pdf.data_format = 4
    /\ hd.res.info.total_slices = 5
    /\ hd.res.info.bytes_per_slice = 16

----------------------------------------------------------------------------
(* _read_bti_header record by record: hd is the state of the call          *)

MaxRecords == 2

RecordCounts == 0..MaxRecords

\* files too short for their records, and files that hold them all
RecordStarts == {200, 4000}

PdfRecordPool ==
    { [Pdf(st, hp, fmt, ep, ch, <<>>) EXCEPT
          !.total_events = ne, !.total_processes = np,
          !.total_associated_files = na, !.total_ed_classes = nd] :
        st \in RecordStarts, hp \in {0, 5}, fmt \in {0, 2, 4},
        ep \in {<<>>, <<2>>, <<2, 3>>},
        ch \in {<<>>, <<PdfChan(1, 2)>>, <<PdfChan(2, 3), PdfChan(1, 2)>>},
        ne \in RecordCounts, np \in RecordCounts, na \in RecordCounts,
        nd \in RecordCounts }

InitRecords ==
    /\ IdleRename
    /\ rc = [pc |-> "idle"]
    /\ pdf \in PdfRecordPool
    /\ hd = NewReadHeader
    /\ IdleData
    /\ IdleRaw

ReadFixedHeader ==
    /\ hd.pc = "call"
    /\ hd' = FixedHeaderStep(hd, pdf)
    /\ UNCHANGED <<renameVars, rc, pdf, dataVars, raw>>

ReadEpoch ==
    /\ hd.pc = "epochs"
    /\ hd' = EpochStep(hd, pdf)
    /\ UNCHANGED <<renameVars, rc, pdf, dataVars, raw>>

ReadChannel ==
    /\ hd.pc = "chs"
    /\ hd' = ChannelRecordStep(hd, pdf)
    /\ UNCHANGED <<renameVars, rc, pdf, dataVars, raw>>

ReadEvent ==
    /\ hd.pc = "events"
    /\ hd' = EventStep(hd, pdf)
    /\ UNCHANGED <<renameVars, rc, pdf, dataVars, raw>>

ReadProcess ==
    /\ hd.pc = "processes"
    /\ hd' = ProcessStep(hd, pdf)
    /\ UNCHANGED <<renameVars, rc, pdf, dataVars, raw>>

ReadAssocFile ==
    /\ hd.pc = "assocfiles"
    /\ hd' = AssocFileStep(hd, pdf)
    /\ UNCHANGED <<renameVars, rc, pdf, dataVars, raw>>

ReadEdClass ==
    /\ hd.pc = "edclasses"
    /\ hd' = EdClassStep(hd, pdf)
    /\ UNCHANGED <<renameVars, rc, pdf, dataVars, raw>>

FinishHeader ==
    /\ hd.pc = "finish"
    /\ hd' = HeaderFinishStep(hd)
    /\ UNCHANGED <<renameVars, rc, pdf, dataVars, raw>>

NextRecords ==
    \/ ReadFixedHeader
    \/ ReadEpoch
    \/ ReadChannel
    \/ ReadEvent
    \/ ReadProcess
    \/ ReadAssocFile
    \/ ReadEdClass
    \/ FinishHeader

SpecRecords == InitRecords /\ [][NextRecords]_vars

\* the fixed header has been read
FixedHeaderRead == "epochs" \in DOMAIN hd.info

\* every list of the header has its declared number of entries
ListsComplete ==
    /\ Len(hd.info.epochs) = hd.info.total_epochs
    /\ Len(hd.info.chs) = hd.info.total_chans
    /\ Len(hd.info.events) = hd.info.total_events
    /\ Len(hd.info.processes) = hd.info.total_processes
    /\ Len(hd.info.assocfiles) = hd.info.total_associated_files
    /\ Len(hd.info.edclasses) = hd.info.total_ed_classes

\* C22: _read_bti_header reads the sub-records strictly in the order
\* epochs, channels, events, processes, associated files, ed-classes, each
\* group starting only after the previous group is complete, and the lists
\* have exactly total_epochs, total_chans, total_events, total_processes,
\* total_associated_files and total_ed_classes entries as declared in the
\* fixed header: a call that is over on a file holding all those records
\* has read every one of them, each as the file holds it.
C22_RecordsReadInOrder ==
    FixedHeaderRead =>
        LET i == hd.info
        IN  /\ Len(i.chs) > 0 => Len(i.epochs) = i.total_epochs
            /\ Len(i.events) > 0 => Len(i.chs) = i.total_chans
            /\ Len(i.processes) > 0 => Len(i.events) = i.total_events
            /\ Len(i.assocfiles) > 0 =>
                   Len(i.processes) = i.total_processes
            /\ Len(i.edclasses) > 0 =>
                   Len(i.assocfiles) = i.total_associated_files
            /\ hd.pc = "returned" => ListsComplete
            /\ (hd.pc = "raised" /\ hd.err # "FormatError") => ListsComplete
            /\ \A k \in 1..Len(i.epochs) :
                  i.epochs[k].pts_in_epoch = pdf.epochs[k]
            /\ \A k \in 1..Len(i.chs) : i.chs[k] = pdf.chs[k]

\* a header returned with two records of each of the six groups, the
\* channel records not in the order of their numbers
C22_Witness ==
    /\ hd.pc = "returned"
    /\ ListsComplete
    /\ Len(hd.info.epochs) = 2
    /\ Len(hd.info.chs) = 2
    /\ hd.info.chs[1].chan_no = 2
    /\ Len(hd.info.events) = 2
    /\ Len(hd.info.processes) = 2
    /\ Len(hd.info.assocfiles) = 2
    /\ Len(hd.info.edclasses) = 2

----------------------------------------------------------------------------
(* Numbers and orderings used by _read_data                                *)
(*                                                                         *)
(* The 'f8' values are exact rationals [num, den] in lowest terms.         *)

Abs(x) == IF x < 0 THEN -x ELSE x

RECURSIVE Gcd(_, _)
Gcd(a, b) == IF b = 0 THEN a ELSE Gcd(b, a % b)

Rat(n, d) ==
    LET g == Gcd(Abs(n), Abs(d))
        s == IF d < 0 THEN -1 ELSE 1
    IN  [num |-> (s * n) \div g, den |-> (s * d) \div g]

RatMul(a, b) == Rat(a.num * b.num, a.den * b.den)

\* characters in ASCII order
AsciiChars ==
    <<" ", "0", "1", "2", "3", "4", "5", "6", "7", "8", "9",
      "A", "B", "C", "D", "E", "F", "G", "H", "I", "J", "K", "L", "M",
      "N", "O", "P", "Q", "R", "S", "T", "U", "V", "W", "X", "Y", "Z", "_",
      "a", "b", "c", "d", "e", "f", "g", "h", "i", "j", "k", "l", "m",
      "n", "o", "p", "q", "r", "s", "t", "u", "v", "w", "x", "y", "z">>

Ord(c) == CHOOSE k \in 1..Len(AsciiChars) : AsciiChars[k] = c

\* s < t for Python 2 str
StrLess(s, t) ==
    \E k \in 1..(Len(s) + 1) :
        /\ \A j \in 1..(k - 1) : j <= Len(t) /\ s[j] = t[j]
        /\ \/ k = Len(s) + 1 /\ Len(t) >= k
           \/ k <= Len(s) /\ k <= Len(t) /\ Ord(s[k]) < Ord(t[k])

\* chans.sort(key=lambda c: c['chan_no']); list.sort is stable
SortByChanNo(chans) ==
    LET n == Len(chans)
        Before(i, j) == \/ chans[i].chan_no < chans[j].chan_no
                        \/ chans[i].chan_no = chans[j].chan_no /\ i < j
        Rank(i) == Cardinality({j \in 1..n : Before(j, i)}) + 1
    IN  [k \in 1..n |-> chans[CHOOSE i \in 1..n : Rank(i) = k]]

\* the sort key of line 886 with every name compared as a string
NameKey_Lexical(name) == [isint |-> FALSE, int |-> 0, str |-> name]

\* the sort key of line 886: int(name[1:]) if name[0] == 'A' else name
NameKey(name) ==
    IF name[1] = "A"
    THEN [isint |-> TRUE, int |-> ParseDec(Tail1(name)), str |-> <<>>]
    ELSE [isint |-> FALSE, int |-> 0, str |-> name]

\* evaluating the key raises: name[0] of '' or int() of a non-number
NameKeyRaises(name) ==
    \/ Len(name) = 0
    \/ name[1] = "A" /\ ~IsDecimal(Tail1(name))

\* Python 2 orders every int before every str
NameKeyLess(a, b) ==
    IF a.isint /\ b.isint THEN a.int < b.int
    ELSE IF a.isint THEN TRUE
    ELSE IF b.isint THEN FALSE
    ELSE StrLess(a.str, b.str)

\* by_name after lines 885-887: the positions of chans in the order of
\* their keys, equal keys in the order of chans
ByName(chans) ==
    LET n == Len(chans)
        key(i) == NameKey(chans[i].name)
        Before(i, j) == \/ NameKeyLess(key(i), key(j))
                        \/ ~NameKeyLess(key(j), key(i)) /\ i < j
        Rank(i) == Cardinality({j \in 1..n : Before(j, i)}) + 1
    IN  [k \in 1..n |-> CHOOSE i \in 1..n : Rank(i) = k]

----------------------------------------------------------------------------
(* _read_data                                                              *)
(*                                                                         *)
(* rd is the activation of _read_data(fname, config_fname, start, stop):   *)
(* pc, err, the arguments, fid_open, info, the resolved start and stop,    *)
(* data (channels x time slices, as read), cfg, chans, cal, and ret (the   *)
(* pair it returns).  An optional argument is [given, val].                *)

None == [given |-> FALSE, val |-> 0]
Some(v) == [given |-> TRUE, val |-> v]

NewReadData(start, stop) ==
    [pc |-> "call", err |-> "", start_arg |-> start, stop_arg |-> stop,
     fid_open |-> FALSE, info |-> NoInfo, start |-> 0, stop |-> 0,
     data |-> <<>>, cfg |-> [pc |-> "none"], chans |-> <<>>, cal |-> <<>>,
     ret |-> [info |-> NoInfo, data |-> <<>>]]

RaiseData(st, err) == [st EXCEPT !.pc = "raised", !.err = err]

\* lines 825-827: open the PDF and read its header
DataHeaderStep(st, f) ==
    LET r == read_bti_header(f)
    IN  IF ~r.ok THEN RaiseData([st EXCEPT !.fid_open = TRUE], r.err)
        ELSE [st EXCEPT !.fid_open = TRUE, !.info = r.info, !.pc = "range"]

\* lines 829-837 with the test start >= stop written start > stop
DataRangeStep_AllowEmpty(st) ==
    LET total_slices == st.info.total_slices
        start == IF st.start_arg.given THEN st.start_arg.val ELSE 0
        stop  == IF st.stop_arg.given THEN st.stop_arg.val ELSE total_slices
    IN  IF start < 0 \/ stop > total_slices \/ start > stop
        THEN RaiseData([st EXCEPT !.start = start, !.stop = stop],
                       "RuntimeError")
        ELSE [st EXCEPT !.start = start, !.stop = stop, !.pc = "samples"]

\* lines 829-837: the defaults and the range check
DataRangeStep(st) ==
    LET total_slices == st.info.total_slices
        start == IF st.start_arg.given THEN st.start_arg.val ELSE 0
        stop  == IF st.stop_arg.given THEN st.stop_arg.val ELSE total_slices
    IN  IF start < 0 \/ stop > total_slices \/ start >= stop
        THEN RaiseData([st EXCEPT !.start = start, !.stop = stop],
                       "RuntimeError")
        ELSE [st EXCEPT !.start = start, !.stop = stop, !.pc = "samples"]

\* lines 839-844: seek to slice start, read (stop - start) * total_chans
\* values, reshape to slices x channels and transpose
DataSamplesStep(st, f) ==
    LET nchan == st.info.total_chans
        want  == st.stop - st.start
        have  == Len(f.samples) - st.start
    IN  IF nchan > 0 /\ have < want
        THEN RaiseData(st, "ValueError")    \* reshape of a short read
        ELSE [st EXCEPT
                !.data = [c \in 1..nchan |->
                            [t \in 1..want |-> f.samples[st.start + t][c]]],
                !.pc = "config"]

\* lines 846-847: cfg = read_config(config_fname)
DataConfigStep(st, cf) ==
    LET c == read_config(cf)
    IN  IF c.pc = "raised" THEN RaiseData(st, c.err)
        ELSE [st EXCEPT
                !.cfg = [transforms |-> c.transforms,
                         user_blocks |-> c.user_blocks,
                         channels |-> c.channels],
                !.pc = "reconcile"]

\* c for c in seq if keep(c)
RECURSIVE FilterSeq(_, _)
FilterSeq(seq, keep) ==
    IF Len(seq) = 0 THEN <<>>
    ELSE (IF Head(seq).chan_no \in keep THEN <<Head(seq)>> ELSE <<>>)
         \o FilterSeq(Tail(seq), keep)

ChanNos(seq) == [k \in 1..Len(seq) |-> seq[k].chan_no]

ChanNoSet(seq) == {seq[k].chan_no : k \in 1..Len(seq)}

\* lines 868-872: the fields copied from the config record
Transfer(ch, ch_cfg) ==
    [chan_no |-> ch.chan_no, scale |-> ch.scale,
     upb |-> ch_cfg.units_per_bit, gain |-> ch_cfg.gain,
     name |-> ch_cfg.name,
     coil_trans |-> IF "dev" \in DOMAIN ch_cfg
                    THEN ch_cfg.dev.transform ELSE "none"]

\* lines 851-872 with a mismatch reconciled by keeping the PDF channels
\* the config describes
Reconcile_DropMissing(chs, cfg_channels) ==
    LET chans == SortByChanNo(FilterSeq(chs, ChanNoSet(cfg_channels)))
        chans_cfg == SortByChanNo(FilterSeq(cfg_channels, ChanNoSet(chs)))
        n == IF Len(chans) < Len(chans_cfg) THEN Len(chans)
             ELSE Len(chans_cfg)
    IN  [match |-> TRUE,
         chans |-> [k \in 1..n |-> Transfer(chans[k], chans_cfg[k])]]

\* lines 851-872 with the config records paired in the order of the config
\* file
Reconcile_ConfigOrder(chs, cfg_channels) ==
    LET chans == SortByChanNo(chs)
        chans_cfg == FilterSeq(cfg_channels, ChanNoSet(chans))
    IN  IF \/ Len(chans_cfg) # Len(chans)
           \/ ChanNoSet(chans_cfg) # ChanNoSet(chans)
        THEN [match |-> FALSE, chans |-> chans]
        ELSE [match |-> TRUE,
              chans |-> [k \in 1..Len(chans) |->
                            Transfer(chans[k], chans_cfg[k])]]

\* lines 851-872: sort, filter, compare, transfer
Reconcile(chs, cfg_channels) ==
    LET chans == SortByChanNo(chs)
        chans_cfg == SortByChanNo(FilterSeq(cfg_channels, ChanNoSet(chans)))
    IN  IF ChanNos(chans_cfg) # ChanNos(chans)
        THEN [match |-> FALSE, chans |-> chans]
        ELSE [match |-> TRUE,
              chans |-> [k \in 1..Len(chans) |->
                            Transfer(chans[k], chans_cfg[k])]]

DataReconcileStep(st) ==
    LET r == Reconcile(st.info.chs, st.cfg.channels)
    \* chans is info['chs'] itself: the sort and the transfer are in place
    IN  IF ~r.match
        THEN RaiseData([st EXCEPT !.chans = r.chans, !.info.chs = r.chans],
                       "RuntimeError")
        ELSE [st EXCEPT !.chans = r.chans, !.info.chs = r.chans,
                        !.pc = "calibrate"]

\* lines 875-878: the three arrays are built in the order of keys and
\* bound, in that order, to upb, gain, scale
Calibration(chans, data_format) ==
    LET arr(key) == [k \in 1..Len(chans) |->
                        CASE key = "scale" -> chans[k].scale
                          [] key = "upb"   -> chans[k].upb
                          [] key = "gain"  -> chans[k].gain]
        keys  == <<"scale", "upb", "gain">>
        upb   == arr(keys[1])
        gain  == arr(keys[2])
        scale == arr(keys[3])
    IN  [k \in 1..Len(chans) |->
            IF data_format < 3
            THEN Rat(scale[k] * upb[k], gain[k])
            ELSE Rat(scale[k] * gain[k], 1)]

\* lines 875-882
DataCalibrateStep(st) ==
    LET cal == Calibration(st.chans, st.info.data_format)
        chans == [k \in 1..Len(st.chans) |->
                     [cal |-> cal[k]] @@ st.chans[k]]
    IN  [st EXCEPT !.cal = cal, !.chans = chans, !.info.chs = chans,
                   !.pc = "sort"]

\* lines 884-895: order by name, add the config blocks, return
DataSortStep(st) ==
    LET chans == st.chans
        n == Len(chans)
    IN  IF \E k \in 1..n : Len(chans[k].name) = 0
        THEN RaiseData(st, "IndexError")
        ELSE IF \E k \in 1..n : NameKeyRaises(chans[k].name)
        THEN RaiseData(st, "ValueError")
        ELSE
        LET by_name == ByName(chans)
            chs == [k \in 1..n |-> chans[by_name[k]]]
        IN  IF \/ UB_B_E_TABLE_USED \notin DOMAIN st.cfg.user_blocks
               \/ UB_B_WEIGHTS_USED \notin DOMAIN st.cfg.user_blocks
            THEN RaiseData([st EXCEPT !.info.chs = chs], "KeyError")
            ELSE
            LET info == [e_table |-> st.cfg.user_blocks[UB_B_E_TABLE_USED],
                         weights |-> st.cfg.user_blocks[UB_B_WEIGHTS_USED],
                         ch_names |-> [k \in 1..n |-> chs[k].name],
                         bti_transform |-> st.cfg.transforms]
                        @@ [st.info EXCEPT !.chs = chs]
                out == [k \in 1..n |->
                          [t \in 1..Len(st.data[by_name[k]]) |->
                              RatMul(Rat(st.data[by_name[k]][t], 1),
                                     st.cal[by_name[k]])]]
            IN  [st EXCEPT !.info = info, !.pc = "returned",
                           !.ret = [info |-> info, data |-> out]]

----------------------------------------------------------------------------
(* _read_data as a state machine: one call on one PDF and one config file  *)

MaxSlices       == 2    \* most time slices of a PDF in SpecRange
MaxPdfChans     == 2    \* most channel records of a PDF in SpecData
MaxDataCfgChans == 2    \* most channel records of a config in SpecData

\* the samples of a file of nsl slices of nchan channels, all different:
\* slice s, column c holds 10 * s + c
Samples(nsl, nchan) ==
    [s \in 1..nsl |-> [c \in 1..nchan |-> 10 * s + c]]

\* a well-formed PDF: the data, then the header at the next multiple of 8,
\* then the trailer holding the offset of the header
DataPdf(data_format, epochs, chs) ==
    LET nbytes == SumPts(epochs) * ItemSize(data_format) * Len(chs)
        body   == Pdf(0, nbytes, data_format, epochs, chs,
                      Samples(SumPts(epochs), Len(chs)))
    IN  [body EXCEPT !.start = CorrectOffset(nbytes) + HeaderLen(body)]

\* a config file with one sensor transform, the given user blocks and
\* channel records
DataConfig(blocks, channels) ==
    [hdr |-> [total_chans |-> Len(channels), total_sensors |-> 1,
              total_user_blocks |-> Len(blocks)],
     blocks |-> blocks, channels |-> channels]

A_1  == <<"A", "1">>
A_2  == <<"A", "2">>
A_10 == <<"A", "1", "0">>

DataBlockLists ==
    { <<Blk(UB_B_E_TABLE_USED, 60, 0), Blk(UB_B_WEIGHTS_USED, 204, 0)>>,
      <<Blk(UB_B_E_TABLE_USED, 60, 0)>> }

PdfChanPool == {PdfChan(1, 2), PdfChan(2, 3), PdfChan(3, 2)}

\* chan_no 1 and chan_no 2 are described twice, and the names do not sort
\* like the numbers
DataCfgChanPool ==
    { CfgChan(A_2, 1, CHTYPE_MEG, 4, 8, "T1"),
      CfgChan(A_10, 2, CHTYPE_MEG, 2, 6, "T2"),
      CfgChan(N_TRIGGER, 3, CHTYPE_TRIGGER, 1, 1, "none"),
      CfgChan(A_1, 1, CHTYPE_REFERENCE, 2, 8, "T4"),
      CfgChan(N_UACurrent, 2, CHTYPE_UTILITY, 1, 1, "none") }

\* _read_data(fname, config_fname) on every PDF and config of the pools
InitData ==
    /\ IdleRename
    /\ rc = [pc |-> "idle"]
    /\ hd = [pc |-> "idle"]
    /\ pdf \in { DataPdf(fmt, <<2>>, chs) :
                   fmt \in 1..4, chs \in SeqsUpTo(PdfChanPool, MaxPdfChans) }
    /\ config \in { DataConfig(b, c) :
                      b \in DataBlockLists,
                      c \in SeqsUpTo(DataCfgChanPool, MaxDataCfgChans) }
    /\ rd = NewReadData(None, None)
    /\ IdleRaw

RangeArgs == {None} \cup {Some(v) : v \in (-1)..(MaxSlices + 1)}

\* _read_data(fname, config_fname, start, stop) on a matching PDF and
\* config, for every start and stop around the length of the file
InitRange ==
    /\ IdleRename
    /\ rc = [pc |-> "idle"]
    /\ hd = [pc |-> "idle"]
    /\ pdf \in { DataPdf(2, ep, <<PdfChan(1, 2)>>) :
                   ep \in {<<n>> : n \in 0..MaxSlices} \cup {<<1, 1>>} }
    /\ config = DataConfig(<<Blk(UB_B_E_TABLE_USED, 60, 0),
                             Blk(UB_B_WEIGHTS_USED, 204, 0)>>,
                           <<CfgChan(A_1, 1, CHTYPE_MEG, 4, 8, "T1")>>)
    /\ \E a \in RangeArgs, b \in RangeArgs : rd = NewReadData(a, b)
    /\ IdleRaw

\* lines 825-827
ReadDataHeader ==
    /\ rd.pc = "call"
    /\ rd' = DataHeaderStep(rd, pdf)
    /\ UNCHANGED <<renameVars, rc, headerVars, config, raw>>

\* lines 829-837
ReadDataRange ==
    /\ rd.pc = "range"
    /\ rd' = DataRangeStep(rd)
    /\ UNCHANGED <<renameVars, rc, headerVars, config, raw>>

\* lines 839-844
ReadDataSamples ==
    /\ rd.pc = "samples"
    /\ rd' = DataSamplesStep(rd, pdf)
    /\ UNCHANGED <<renameVars, rc, headerVars, config, raw>>

\* lines 846-847
ReadDataConfig ==
    /\ rd.pc = "config"
    /\ rd' = DataConfigStep(rd, config)
    /\ UNCHANGED <<renameVars, rc, headerVars, config, raw>>

\* lines 849-872
ReadDataReconcile ==
    /\ rd.pc = "reconcile"
    /\ rd' = DataReconcileStep(rd)
    /\ UNCHANGED <<renameVars, rc, headerVars, config, raw>>

\* lines 874-882
ReadDataCalibrate ==
    /\ rd.pc = "calibrate"
    /\ rd' = DataCalibrateStep(rd)
    /\ UNCHANGED <<renameVars, rc, headerVars, config, raw>>

\* lines 884-895
ReadDataSort ==
    /\ rd.pc = "sort"
    /\ rd' = DataSortStep(rd)
    /\ UNCHANGED <<renameVars, rc, headerVars, config, raw>>

NextData ==
    \/ ReadDataHeader
    \/ ReadDataRange
    \/ ReadDataSamples
    \/ ReadDataConfig
    \/ ReadDataReconcile
    \/ ReadDataCalibrate
    \/ ReadDataSort

SpecData == InitData /\ [][NextData]_vars

SpecRange == InitRange /\ [][NextData]_vars

----------------------------------------------------------------------------
(* Claims about _read_data *)

\* C1 (SpecData): when reconciliation succeeds, the set of channel numbers
\* of the reconciled and of the returned channel list equals the set of
\* channel numbers of the PDF channel records; when the config has no
\* record for some PDF channel number, _read_data raises at the
\* reconciliation and never returns a channel list.
C1_ReconciledChannelSetIsPdfSet ==
    /\ rd.pc \in {"calibrate", "sort"}
          => ChanNoSet(rd.chans) = ChanNoSet(pdf.chs)
    /\ rd.pc = "returned"
          => /\ ChanNoSet(rd.ret.info.chs) = ChanNoSet(pdf.chs)
             /\ Len(rd.ret.info.chs) = Len(pdf.chs)
    /\ ~(ChanNoSet(pdf.chs) \subseteq ChanNoSet(config.channels))
          => /\ rd.pc \in {"call", "range", "samples", "config",
                           "reconcile", "raised"}
             /\ rd.pc = "raised" => rd.err = "RuntimeError"
                                    /\ rd.ret.info = NoInfo

\* a call that returned two channels the PDF lists out of channel-number
\* order, from a config read in another order
C1_Witness ==
    /\ rd.pc = "returned"
    /\ ChanNos(pdf.chs) = <<2, 1>>
    /\ ChanNos(config.channels) = <<1, 2>>
    /\ ChanNoSet(rd.ret.info.chs) = {1, 2}

\* the config record a reconciled channel took its values from
MatchingConfig(ch) ==
    {config.channels[k] : k \in {j \in 1..Len(config.channels) :
        /\ config.channels[j].chan_no = ch.chan_no
        /\ config.channels[j].name = ch.name}}

Scale(chan_no) ==
    {pdf.chs[k].scale : k \in {j \in 1..Len(pdf.chs) :
                                 pdf.chs[j].chan_no = chan_no}}

\* C2 (SpecData): the calibration factor stored for each returned channel
\* is scale * units-per-bit / gain for data_format 1 or 2 and scale * gain
\* for data_format 3 or 4, scale being that of the PDF channel record and
\* units-per-bit and gain those of the matching config record.
C2_CalibrationFormula ==
    rd.pc = "returned" =>
        \A k \in 1..Len(rd.ret.info.chs) :
            LET ch == rd.ret.info.chs[k]
            IN  \E c \in MatchingConfig(ch), scale \in Scale(ch.chan_no) :
                    ch.cal = IF pdf.data_format \in {1, 2}
                             THEN Rat(scale * c.units_per_bit, c.gain)
                             ELSE Rat(scale * c.gain, 1)

\* the range the arguments of the call ask for
RangeStart == IF rd.start_arg.given THEN rd.start_arg.val ELSE 0

RangeStop ==
    IF rd.stop_arg.given THEN rd.stop_arg.val ELSE SumPts(pdf.epochs)

RangeIsBad ==
    \/ RangeStart = RangeStop
    \/ RangeStart > RangeStop
    \/ RangeStart < 0
    \/ RangeStop > SumPts(pdf.epochs)

\* C3 (SpecRange): for every total_slices and every (start, stop), a
\* missing start standing for 0 and a missing stop for total_slices:
\* when start = stop, start > stop, start < 0 or stop > total_slices the
\* call raises at the range check, having read no sample, and returns
\* nothing; for every other range it goes on, and the matrix it returns
\* has one row per channel of exactly stop - start time slices, the slices
\* start .. stop - 1 of the file.
C3_RangeCheck ==
    /\ RangeIsBad
          => /\ rd.pc \in {"call", "range", "raised"}
             /\ rd.pc = "raised" => rd.err = "RuntimeError"
             /\ rd.data = <<>>
             /\ rd.ret.data = <<>>
    /\ ~RangeIsBad => rd.pc # "raised"
    /\ rd.pc = "returned"
          => /\ Len(rd.ret.data) = Len(pdf.chs)
             /\ \A c \in 1..Len(rd.ret.data) :
                    /\ Len(rd.ret.data[c]) = RangeStop - RangeStart
                    /\ \A t \in 1..Len(rd.ret.data[c]) :
                          rd.ret.data[c][t] =
                              RatMul(Rat(pdf.samples[RangeStart + t][c], 1),
                                     rd.cal[c])

\* a call with start = stop inside the file, refused
C3_Witness ==
    /\ rd.pc = "raised"
    /\ rd.start_arg = Some(1)
    /\ rd.stop_arg = Some(1)
    /\ SumPts(pdf.epochs) = 2

\* the columns of the PDF that hold the samples of channel chan_no
ColumnsOf(chan_no) ==
    {j \in 1..Len(pdf.chs) : pdf.chs[j].chan_no = chan_no}

\* C17 (SpecData): for every order of the channel records in the PDF
\* header, row k of the returned matrix holds the samples of the channel
\* entry k of the returned channel list describes, times the calibration
\* factor of that entry.
C17_RowsFollowChannelList ==
    rd.pc = "returned" =>
        \A k \in 1..Len(rd.ret.info.chs) :
            \E j \in ColumnsOf(rd.ret.info.chs[k].chan_no) :
                \A t \in 1..Len(rd.ret.data[k]) :
                    rd.ret.data[k][t]
                      = RatMul(Rat(pdf.samples[rd.start + t][j], 1),
                               rd.ret.info.chs[k].cal)

\* the number of entries of seq equal to x
Count(seq, x) == Cardinality({k \in 1..Len(seq) : seq[k] = x})

\* a holds the entries of b, each as often as b does
IsPermutation(a, b) ==
    /\ Len(a) = Len(b)
    /\ \A k \in 1..Len(a) : Count(a, a[k]) = Count(b, a[k])

IsAName(name) == Len(name) > 0 /\ name[1] = "A"

\* C18 (SpecData): the channel list _read_data returns is in canonical
\* order: of two channels whose names start with "A" the one with the
\* smaller integer after the "A" comes first ("A2" before "A10"), of two
\* other channels the one whose name is lexically smaller comes first; the
\* list is a permutation of the reconciled channels, and ch_names lists
\* its names.
C18_CanonicalOrder ==
    rd.pc = "returned" =>
        LET chs == rd.ret.info.chs
        IN  /\ \A i, j \in 1..Len(chs) :
                  i < j =>
                    /\ (IsAName(chs[i].name) /\ IsAName(chs[j].name))
                          => ParseDec(Tail1(chs[i].name))
                                <= ParseDec(Tail1(chs[j].name))
                    /\ (~IsAName(chs[i].name) /\ ~IsAName(chs[j].name))
                          => ~StrLess(chs[j].name, chs[i].name)
            /\ IsPermutation(chs, rd.chans)
            /\ rd.ret.info.ch_names = [k \in 1..Len(chs) |-> chs[k].name]

\* A2 and A10 returned in this order, from a config that lists A10 first
C18_Witness ==
    /\ rd.pc = "returned"
    /\ rd.ret.info.ch_names = <<A_2, A_10>>
    /\ config.channels[1].name = A_10

\* C19 (SpecData): the channel number is the join key.  For every order
\* of the records in the PDF header and in the config file, each
\* reconciled channel carries the name, units-per-bit, gain and (for the
\* record kinds that hold one) device transform of a config record with
\* the channel number of its own PDF record, whose scale it keeps.
C19_ChannelNumberIsJoinKey ==
    rd.pc \in {"calibrate", "sort", "returned"} =>
        \A k \in 1..Len(rd.chans) :
            LET ch == rd.chans[k]
            IN  /\ ch.scale \in Scale(ch.chan_no)
                /\ \E j \in 1..Len(config.channels) :
                      LET c == config.channels[j]
                      IN  /\ c.chan_no = ch.chan_no
                          /\ ch.name = c.name
                          /\ ch.upb = c.units_per_bit
                          /\ ch.gain = c.gain
                          /\ ch.coil_trans =
                               IF c.ch_type \in {CHTYPE_MEG, CHTYPE_REFERENCE}
                               THEN c.transform ELSE "none"

\* a PDF listing channels 1, 2 reconciled with a config listing 2, 1
C19_Witness ==
    /\ rd.pc = "returned"
    /\ ChanNos(pdf.chs) = <<1, 2>>
    /\ ChanNos(config.channels) = <<2, 1>>
    /\ rd.chans[1].name = A_2
    /\ rd.chans[2].upb = 6

\* C13 (SpecData): the PDF handle opened by _read_data is closed by the
\* time _read_data returns or raises.
C13_HandleClosedAtExit ==
    rd.pc \in {"returned", "raised"} => ~rd.fid_open

\* C26 (SpecData): in one load, the raw sample matrix is read from the PDF
\* only after the config decode, the PDF header decode and the channel
\* reconciliation have all succeeded; a load whose config decode or
\* reconciliation fails never reads the sample matrix.
C26_SamplesReadLast ==
    rd.data # <<>> =>
        /\ rd.info # NoInfo
        /\ "channels" \in DOMAIN rd.cfg
        /\ rd.pc \in {"calibrate", "sort", "returned"}

----------------------------------------------------------------------------
(* _read_data run from its call to its return or raise                     *)

RECURSIVE RunData(_, _, _)
RunData(st, f, cf) ==
    IF st.pc = "call" THEN RunData(DataHeaderStep(st, f), f, cf)
    ELSE IF st.pc = "range" THEN RunData(DataRangeStep(st), f, cf)
    ELSE IF st.pc = "samples" THEN RunData(DataSamplesStep(st, f), f, cf)
    ELSE IF st.pc = "config" THEN RunData(DataConfigStep(st, cf), f, cf)
    ELSE IF st.pc = "reconcile" THEN RunData(DataReconcileStep(st), f, cf)
    ELSE IF st.pc = "calibrate" THEN RunData(DataCalibrateStep(st), f, cf)
    ELSE IF st.pc = "sort" THEN RunData(DataSortStep(st), f, cf)
    ELSE st

\* _read_data(fname, config_fname, start, stop) on the PDF f and config cf
read_data(f, cf, start, stop) == RunData(NewReadData(start, stop), f, cf)

----------------------------------------------------------------------------
(* Raw.__init__: the filter band                                           *)

COMMA == ","

RECURSIVE SplitComma(_)
\* s.split(',')
SplitComma(s) ==
    IF \A k \in 1..Len(s) : s[k] # COMMA THEN <<s>>
    ELSE LET k == CHOOSE i \in 1..Len(s) :
                     s[i] = COMMA /\ \A j \in 1..(i - 1) : s[j] # COMMA
         IN  <<SubSeq(s, 1, k - 1)>> \o SplitComma(SubSeq(s, k + 1, Len(s)))

\* float(s) and the 'f8' conversion accept s; of the float syntax the model
\* has the strings of decimal digits, whose value ParseDec gives
IsFloat(s) == IsDecimal(s)

BandError == [ok |-> FALSE, low |-> 0, high |-> 0]

\* lines 974-983: low and high, or ok = FALSE when float(), the 'f8'
\* conversion or the unpacking into low, high raises ValueError
FilterBand(filtname) ==
    IF Len(filtname) = 0 THEN [ok |-> TRUE, low |-> 0, high |-> 600]
    ELSE LET parts == SplitComma(filtname)
         IN  IF Len(parts) < 2 THEN
                 IF IsFloat(parts[1])
                 THEN [ok |-> TRUE, low |-> ParseDec(parts[1]), high |-> 600]
                 ELSE BandError
             ELSE IF \E k \in 1..Len(parts) : ~IsFloat(parts[k])
                 THEN BandError
             ELSE IF Len(parts) # 2 THEN BandError
             ELSE [ok |-> TRUE, low |-> ParseDec(parts[1]),
                   high |-> ParseDec(parts[2])]

----------------------------------------------------------------------------
(* Raw.__init__                                                            *)
(*                                                                         *)
(* raw is the activation of Raw(pdf_fname, config_fname, head_shape_fname, *)
(* use_hpi=False, to_vv): pc, err and at (the exception and the step that  *)
(* raised it), the arguments config_exists (op.exists(config_fname)),      *)
(* head_shape (the file: exists, valid, n_dig_points) and to_vv, the       *)
(* locals bti_info, bti_data and info, self (the attributes set on the     *)
(* object so far) and ret (what the caller of Raw(...) is handed).         *)

FIFF_LOGNO == 111

NoObject == [made |-> FALSE]

NewRaw(config_exists, head_shape, to_vv) ==
    [pc |-> "call", err |-> "", at |-> "",
     config_exists |-> config_exists, head_shape |-> head_shape,
     to_vv |-> to_vv,
     bti_info |-> NoInfo, bti_data |-> <<>>, info |-> [bads |-> <<>>],
     self |-> NoObject, ret |-> NoObject]

\* RaiseRaw with the exception caught and the object handed back as far
\* as it was built
RaiseRaw_PartialObject(st, err, at) ==
    [st EXCEPT !.pc = "raised", !.err = err, !.at = at,
               !.ret = [made |-> TRUE, info |-> st.info]]

\* an exception leaves __init__: the caller of Raw(...) gets no object
RaiseRaw(st, err, at) ==
    [st EXCEPT !.pc = "raised", !.err = err, !.at = at]

\* lines 941-947
RawConfigStep(st) ==
    IF ~st.config_exists THEN RaiseRaw(st, "ValueError", "config")
    ELSE [st EXCEPT !.pc = "data"]

\* lines 949-953: _read_data, then bti_info['bti_transform'][0]
RawDataStep(st, f, cf) ==
    LET r == read_data(f, cf, None, None)
    IN  IF r.pc = "raised" THEN RaiseRaw(st, r.err, "data")
        ELSE IF Len(r.ret.info.bti_transform) = 0
        THEN RaiseRaw(st, "IndexError", "data")
        ELSE [st EXCEPT !.bti_info = r.ret.info, !.bti_data = r.ret.data,
                        !.pc = "info"]

\* lines 963-986
RawInfoStep(st) ==
    LET band == FilterBand(st.bti_info.e_table.hdr.filtername)
    IN  IF Len(st.bti_info.processes) = 0
        THEN RaiseRaw(st, "IndexError", "info")
        ELSE IF ~band.ok THEN RaiseRaw(st, "ValueError", "info")
        ELSE [st EXCEPT
                !.info = [bads |-> <<>>, projs |-> <<>>, comps |-> <<>>,
                          meas_date |-> "timestamp", sfreq |-> "sfreq",
                          nchan |-> Len(st.bti_info.chs),
                          highpass |-> band.low, lowpass |-> band.high,
                          dev_ctf_t |-> <<>>, filenames |-> <<>>],
                !.pc = "channels"]

\* chan_vv.startswith(k) for k in ('MEG', 'RFG', 'RFM')
IsCoilName(vv) ==
    \/ StartsWith(vv, Prefix(V_MEG, 3))
    \/ StartsWith(vv, Prefix(V_RFG, 3))
    \/ StartsWith(vv, Prefix(V_RFM, 3))

V_RSP_001 == <<"R", "S", "P", " ", "0", "0", "1">>

\* lines 1013-1045: chan_info['kind'], 402 being its default
ChanKind(vv) ==
    IF StartsWith(vv, Prefix(V_MEG, 3)) THEN "FIFFV_MEG_CH"
    ELSE IF StartsWith(vv, Prefix(V_RFM, 3)) THEN "FIFFV_REF_MEG_CH"
    ELSE IF StartsWith(vv, Prefix(V_RFG, 3)) THEN "FIFFV_REF_MEG_CH"
    ELSE IF vv = V_STI_014 THEN "FIFFV_STIM_CH"
    ELSE IF StartsWith(vv, Prefix(V_EOG, 3)) THEN "FIFFV_EOG_CH"
    ELSE IF vv = V_ECG_001 THEN "FIFFV_ECG_CH"
    ELSE IF vv = V_RSP_001 THEN "FIFFV_RESP_CH"
    ELSE IF StartsWith(vv, Prefix(V_EXT, 3)) THEN "FIFFV_MISC_CH"
    ELSE IF StartsWith(vv, Prefix(V_UTL_001, 3)) THEN "FIFFV_MISC_CH"
    ELSE "402"

\* lines 994-1046: one pass of the loop, idx counting from 1; the coil
\* transform is read from bti_info['chs'][idx], the entry after this one
ChanInfo(st, ch_names, idx) ==
    LET vv   == ch_names[idx]
        coil == IsCoilName(vv)
        t    == IF coil THEN st.bti_info.chs[idx + 1].coil_trans ELSE "none"
    IN  [ch_name |-> vv,
         logno |-> IF coil THEN idx ELSE idx + FIFF_LOGNO,
         scanno |-> idx,
         range |-> 1,
         cal |-> st.bti_info.chs[idx].cal,
         coil_trans |-> [t |-> t, vv |-> st.to_vv /\ t # "none"],
         kind |-> ChanKind(vv)]

\* lines 988-1046
RawChannelsStep(st) ==
    LET ch_names == rename_channels(st.bti_info.ch_names)
        n == Len(ch_names)
    IN  IF \E idx \in 1..n :
              IsCoilName(ch_names[idx]) /\ idx + 1 > Len(st.bti_info.chs)
        THEN RaiseRaw([st EXCEPT !.info = [ch_names |-> ch_names] @@ @],
                      "IndexError", "channels")
        ELSE [st EXCEPT
                !.info = [ch_names |-> ch_names,
                          chs |-> [idx \in 1..n |->
                                      ChanInfo(st, ch_names, idx)]] @@ @,
                !.pc = "head_shape"]

\* BTI.DATA_N_IDX_POINTS: the index points of a head-shape file
DATA_N_IDX_POINTS == 5

\* row idx (from 0) of np.r_[idx_points, dig_points], a vector of shape (3,)
FilePoint(idx) ==
    [shape |-> <<3>>, rows |-> <<[bti |-> idx, how |-> "read"]>>]

\* range(1, 4) + range(1, (len(idx_points) + 1) - 3)
FiducialsIdents(n_idx) ==
    [k \in 1..3 |-> k] \o [k \in 1..Times(n_idx - 3) |-> k]

\* setup_head_shape on a file of n_dig_points digitization points, before
\* its loop
NewHeadShape(n_dig_points, use_hpi) ==
    [pc |-> "points", err |-> "", use_hpi |-> use_hpi,
     n_dig_points |-> n_dig_points,
     n_points |-> DATA_N_IDX_POINTS + Times(n_dig_points), idx |-> 0,
     dig |-> <<>>]

\* lines 136-152 with the points that are not cardinal all taken as extra
PointInfo_NoHpi(idx, use_hpi) ==
    LET len_idx_points == DATA_N_IDX_POINTS
        fiducials_idents == FiducialsIdents(len_idx_points)
        p0 == [kind |-> "None", ident |-> "None", r |-> FilePoint(idx),
               coord_frame |-> "FIFFV_COORD_HEAD"]
    IN  IF idx < 3
        THEN [p0 EXCEPT !.kind = "FIFFV_POINT_CARDINAL",
                        !.ident = fiducials_idents[idx + 1]]
        ELSE [p0 EXCEPT !.kind = "FIFFV_POINT_EXTRA",
                        !.ident = (idx + 1) - 3]

\* lines 136-147: the point_info of one pass of the loop
PointInfo(idx, use_hpi) ==
    LET len_idx_points == DATA_N_IDX_POINTS
        fiducials_idents == FiducialsIdents(len_idx_points)
        p0 == [kind |-> "None", ident |-> "None", r |-> FilePoint(idx),
               coord_frame |-> "FIFFV_COORD_HEAD"]
        p1 == IF idx < 3
              THEN [p0 EXCEPT !.kind = "FIFFV_POINT_CARDINAL",
                              !.ident = fiducials_idents[idx + 1]]
              ELSE p0
    IN  IF 2 < idx /\ idx < len_idx_points /\ use_hpi
        THEN [p1 EXCEPT !.kind = "FIFFV_POINT_HPI",
                        !.ident = fiducials_idents[idx + 1]]
        ELSE IF idx > 4
        THEN [p1 EXCEPT !.kind = "FIFFV_POINT_EXTRA",
                        !.ident = (idx + 1) - Len(fiducials_idents)]
        ELSE p1

\* lines 136-152: one pass of the loop, and the return after the last
HeadShapePointStep(st) ==
    IF st.idx >= st.n_points THEN [st EXCEPT !.pc = "returned"]
    ELSE LET idx == st.idx
             point_info == PointInfo(idx, st.use_hpi)
         IN  IF 2 < idx /\ idx < DATA_N_IDX_POINTS /\ ~st.use_hpi
             THEN [st EXCEPT !.idx = idx + 1]
             ELSE [st EXCEPT !.idx = idx + 1,
                             !.dig = Append(@, point_info)]

RECURSIVE RunHeadShape(_)
RunHeadShape(st) ==
    IF st.pc = "points" THEN RunHeadShape(HeadShapePointStep(st)) ELSE st

\* setup_head_shape(fname, use_hpi): the list it returns
setup_head_shape(n_dig_points, use_hpi) ==
    RunHeadShape(NewHeadShape(n_dig_points, use_hpi)).dig

\* the call of line 1065, Raw being modelled with use_hpi False
DigPoints(n_dig_points) == setup_head_shape(n_dig_points, FALSE)

RECURSIVE NotExtraFrom(_, _)
NotExtraFrom(dig, k) ==
    IF k > Len(dig) THEN <<>>
    ELSE (IF dig[k].kind # "FIFFV_POINT_EXTRA" THEN <<k>> ELSE <<>>)
         \o NotExtraFrom(dig, k + 1)

\* [d['r'] for d in info['dig'] if d['kind'] != FIFF.FIFFV_POINT_EXTRA]:
\* the positions in dig of the points kept
NotExtra(dig) == NotExtraFrom(dig, 1)

\* convert_coord_frame(info) on info['dig'] = dig: [ok, err, dig]
\*   fp has one row per point that is not extra; line 183 adds an array
\*   of shape (1, 3) to one of shape (len(fp),), and line 199 multiplies
\*   a 3 x 3 matrix with dpnts, of shape (len(fp), 3): both need len(fp)
\*   = 3.  The loop of line 202 enumerates a list of one element, the
\*   array of fiducials_nm stacked on dig_points_nm.
convert_coord_frame(dig) ==
    LET fp == NotExtra(dig)
        n == Len(fp)
    IN  IF n < 3 THEN [ok |-> FALSE, err |-> "IndexError", dig |-> dig]
        ELSE IF n # 3 THEN [ok |-> FALSE, err |-> "ValueError", dig |-> dig]
        ELSE
            LET nm(j) == [bti |-> dig[fp[j]].r.rows[1].bti,
                          how |-> "fiducials_nm"]
                fiducials_nm == <<nm(1), nm(3), nm(2)>>
                dig_points_nm ==
                    [j \in 1..n |-> [bti |-> dig[fp[j]].r.rows[1].bti,
                                     how |-> "dig_points_nm"]]
                pnt == [shape |-> <<2 * n, 3>>,
                        rows |-> fiducials_nm \o dig_points_nm]
            IN  [ok |-> TRUE, err |-> "",
                 dig |-> [dig EXCEPT ![1].r = pnt]]

\* lines 1048-1060: the file must exist; _read_head_shape raises on a
\* file it cannot read to its end
RawHeadShapeStep(st) ==
    IF ~st.head_shape.exists
    THEN RaiseRaw(st, "ValueError", "head_shape")
    ELSE IF ~st.head_shape.valid
    THEN RaiseRaw(st, "ReadError", "head_shape")
    ELSE [st EXCEPT
            !.info = [dig |-> DigPoints(st.head_shape.n_dig_points)] @@ @,
            !.pc = "finish"]

\* lines 1062-1120: the device to head transform, the attributes of self
RawFinishStep(st) ==
    LET info == [dev_head_t |->
                    [from |-> IF st.to_vv THEN "FIFFV_COORD_DEVICE"
                              ELSE "FIFFV_COORD_HEAD",
                     to |-> "FIFFV_COORD_HEAD",
                     trans |-> IF st.to_vv THEN "nm_dev_head_t"
                               ELSE "identity"],
                 dig |-> IF st.to_vv
                         THEN convert_coord_frame(st.info.dig).dig
                         ELSE st.info.dig,
                 dig_in_vv |-> st.to_vv] @@ st.info
        self == [made |-> TRUE,
                 info |-> info,
                 cals |-> [k \in 1..info.nchan |-> info.chs[k].cal],
                 fids |-> <<>>,
                 data |-> st.bti_data,
                 first_samp |-> 0,
                 last_samp |-> st.bti_info.total_slices - 1]
    IN  [st EXCEPT !.info = info, !.self = self, !.ret = self,
                   !.pc = "returned"]

----------------------------------------------------------------------------
(* Raw.__init__ as a state machine: one Raw(...) on one set of files       *)

\* filter names an E-table header holds: none, low and high, low alone,
\* not a number, three numbers, a number and a word
FilterNames ==
    { <<>>,
      <<"1", ",", "4", "0">>,
      <<"5">>,
      <<"x">>,
      <<"1", ",", "4", "0", ",", "7">>,
      <<"1", ",", "x">> }

ETableBlk(filtername) ==
    [Blk(UB_B_E_TABLE_USED, 60, 0) EXCEPT !.filtername = filtername]

RawBlockLists ==
    { <<ETableBlk(fn), Blk(UB_B_WEIGHTS_USED, 204, 0)>> : fn \in FilterNames }
    \cup { <<ETableBlk(<<>>)>> }

\* a sensor alone, a sensor and the trigger in both orders, two sensors
RawPdfChans ==
    { <<PdfChan(1, 2)>>,
      <<PdfChan(1, 2), PdfChan(3, 2)>>,
      <<PdfChan(3, 2), PdfChan(1, 2)>>,
      <<PdfChan(2, 3), PdfChan(1, 2)>> }

RawCfgChans ==
    { <<CfgChan(A_2, 1, CHTYPE_MEG, 4, 8, "T1"),
        CfgChan(N_TRIGGER, 3, CHTYPE_TRIGGER, 1, 1, "none")>>,
      <<CfgChan(A_2, 1, CHTYPE_MEG, 4, 8, "T1")>>,
      <<CfgChan(A_2, 1, CHTYPE_MEG, 4, 8, "T1"),
        CfgChan(N_RESPONSE, 3, CHTYPE_EXTERNAL, 1, 1, "none")>>,
      <<CfgChan(A_10, 2, CHTYPE_MEG, 2, 6, "T2"),
        CfgChan(A_2, 1, CHTYPE_MEG, 4, 8, "T1")>> }

HeadShapeFiles ==
    { [exists |-> FALSE, valid |-> FALSE, n_dig_points |-> 0],
      [exists |-> TRUE, valid |-> FALSE, n_dig_points |-> 0],
      [exists |-> TRUE, valid |-> TRUE, n_dig_points |-> 0],
      [exists |-> TRUE, valid |-> TRUE, n_dig_points |-> 2] }

InitRaw ==
    /\ IdleRename
    /\ rc = [pc |-> "idle"]
    /\ hd = [pc |-> "idle"]
    /\ rd = [pc |-> "idle"]
    /\ pdf \in { DataPdf(fmt, <<2>>, chs) : fmt \in {2, 4},
                                            chs \in RawPdfChans }
    /\ config \in { DataConfig(b, c) : b \in RawBlockLists,
                                       c \in RawCfgChans }
    /\ \E ce \in BOOLEAN, hs \in HeadShapeFiles, to_vv \in BOOLEAN :
          raw = NewRaw(ce, hs, to_vv)

\* lines 941-947
RawConfigExists ==
    /\ raw.pc = "call"
    /\ raw' = RawConfigStep(raw)
    /\ UNCHANGED <<renameVars, rc, headerVars, dataVars>>

\* lines 949-953
RawReadData ==
    /\ raw.pc = "data"
    /\ raw' = RawDataStep(raw, pdf, config)
    /\ UNCHANGED <<renameVars, rc, headerVars, dataVars>>

\* lines 963-986
RawBuildInfo ==
    /\ raw.pc = "info"
    /\ raw' = RawInfoStep(raw)
    /\ UNCHANGED <<renameVars, rc, headerVars, dataVars>>

\* lines 988-1046
RawSetChannels ==
    /\ raw.pc = "channels"
    /\ raw' = RawChannelsStep(raw)
    /\ UNCHANGED <<renameVars, rc, headerVars, dataVars>>

\* lines 1048-1060
RawReadHeadShape ==
    /\ raw.pc = "head_shape"
    /\ raw' = RawHeadShapeStep(raw)
    /\ UNCHANGED <<renameVars, rc, headerVars, dataVars>>

\* lines 1062-1120
RawFinish ==
    /\ raw.pc = "finish"
    /\ raw' = RawFinishStep(raw)
    /\ UNCHANGED <<renameVars, rc, headerVars, dataVars>>

NextRaw ==
    \/ RawConfigExists
    \/ RawReadData
    \/ RawBuildInfo
    \/ RawSetChannels
    \/ RawReadHeadShape
    \/ RawFinish

SpecRaw == InitRaw /\ [][NextRaw]_vars

----------------------------------------------------------------------------
(* Claims about Raw.__init__, checked under SpecRaw *)

\* the filter name in the E-table header of the config file
FilterNameRead == config.blocks[1].filtername

HoldsTwoFloats(filtname) ==
    LET parts == SplitComma(filtname)
    IN  /\ Len(filtname) > 0
        /\ Len(parts) = 2
        /\ IsFloat(parts[1])
        /\ IsFloat(parts[2])

\* C11: the filter name never fails the load; once the filter band is set,
\* highpass and lowpass are the two comma-separated floats of the filter
\* name in that order, and 0 and 300 when the name is empty or does not
\* hold two comma-separated floats.
C11_FilterBandOrDefault ==
    /\ ~(raw.pc = "raised" /\ raw.at = "info" /\ raw.err = "ValueError")
    /\ raw.pc \in {"channels", "head_shape", "finish", "returned"}
          => IF HoldsTwoFloats(FilterNameRead)
             THEN /\ raw.info.highpass
                        = ParseDec(SplitComma(FilterNameRead)[1])
                  /\ raw.info.lowpass
                        = ParseDec(SplitComma(FilterNameRead)[2])
             ELSE /\ raw.info.highpass = 0
                  /\ raw.info.lowpass = 300

\* C12: a head-shape file that does not exist never fails the load: the
\* load proceeds, and the object it returns has an empty digitization list.
C12_MissingHeadShapeIsAdvisory ==
    ~raw.head_shape.exists
        => /\ ~(raw.pc = "raised" /\ raw.at = "head_shape")
           /\ raw.pc = "returned" => raw.ret.info.dig = <<>>

\* the fields of the measurement info the steps of Raw.__init__ set
InfoFields ==
    {"bads", "projs", "comps", "meas_date", "sfreq", "nchan", "highpass",
     "lowpass", "dev_ctf_t", "filenames", "ch_names", "chs", "dig",
     "dev_head_t"}

\* C14: a load fails atomically.  Whenever a step of Raw(...) raises (the
\* config file is missing, _read_data raises on the PDF header, the range,
\* the config or the reconciliation, the filter name, the channel loop or
\* the head-shape read raises), the caller is handed no object, complete
\* or partial, and the error of the step is the error of the load; an
\* object is handed back only by a load that ran to its end, with every
\* field of its info set.
C14_LoadFailsAtomically ==
    /\ raw.pc = "raised" => /\ ~raw.ret.made
                            /\ raw.err # ""
    /\ raw.ret.made => /\ raw.pc = "returned"
                       /\ InfoFields \subseteq DOMAIN raw.ret.info
                       /\ Len(raw.ret.data) = raw.ret.info.nchan
    /\ ~raw.config_exists => raw.pc \in {"call", "raised"}
    /\ (raw.config_exists /\ raw.pc \notin {"call", "data"})
          => LET r == read_data(pdf, config, None, None)
             IN  r.pc = "raised" => /\ raw.pc = "raised"
                                    /\ raw.err = r.err
                                    /\ raw.at = "data"
    /\ ~(raw.head_shape.exists /\ raw.head_shape.valid)
          => raw.pc # "returned"

\* a load that had set up both channels when the head-shape read failed
C14_Witness ==
    /\ raw.pc = "raised"
    /\ raw.at = "head_shape"
    /\ raw.err = "ReadError"
    /\ Len(raw.info.chs) = 2
    /\ ~raw.ret.made

RECURSIVE Sci(_, _)
\* the number r * 10^e, r a rational, in the one form [num, den, e10]
\* whose den has no factor 2 or 5 and whose num is no multiple of 10
Sci(r, e) ==
    IF r.num = 0 THEN [num |-> 0, den |-> 1, e10 |-> 0]
    ELSE IF r.den % 2 = 0
        THEN Sci([num |-> r.num * 5, den |-> r.den \div 2], e - 1)
    ELSE IF r.den % 5 = 0
        THEN Sci([num |-> r.num * 2, den |-> r.den \div 5], e - 1)
    ELSE IF r.num % 10 = 0
        THEN Sci([num |-> r.num \div 10, den |-> r.den], e + 1)
    ELSE [num |-> r.num, den |-> r.den, e10 |-> e]

\* C16: in the sample matrix of the returned object every MEG and
\* reference channel row is the stored samples of that channel times the
\* calibration factor of the channel times 1e-15.
C16_TeslaScaling ==
    raw.pc = "returned" =>
        \A k \in 1..Len(raw.ret.data) :
            raw.ret.info.chs[k].kind \in {"FIFFV_MEG_CH", "FIFFV_REF_MEG_CH"}
            => \E j \in ColumnsOf(raw.bti_info.chs[k].chan_no) :
                  \A t \in 1..Len(raw.ret.data[k]) :
                      Sci(raw.ret.data[k][t], 0)
                        = Sci(RatMul(Rat(pdf.samples[t][j], 1),
                                     raw.ret.info.chs[k].cal), -15)

\* C28 (SpecRaw): when Raw.__init__ builds the channel metadata, the coil
\* transform given to the MEG / reference channel at position k comes from
\* the same reconciled channel entry k as that channel's name and
\* calibration factor, for every k including the last channel of the
\* list; no channel receives the transform of its neighbour and the last
\* channel never causes an out-of-range access.
C28_CoilTransformOfSameEntry ==
    /\ (raw.pc = "raised" /\ raw.at = "channels") => raw.err # "IndexError"
    /\ (raw.pc \in {"head_shape", "finish", "returned"}) =>
          \A k \in 1..Len(raw.info.chs) :
              /\ raw.info.chs[k].cal = raw.bti_info.chs[k].cal
              /\ raw.info.chs[k].ch_name = raw.info.ch_names[k]
              /\ IsCoilName(raw.info.chs[k].ch_name) =>
                    raw.info.chs[k].coil_trans.t =
                        raw.bti_info.chs[k].coil_trans

\* C30 (SpecRaw): every channel gets the kind that matches its 4D name
\* after renaming: a channel named "RESPONSE" in the 4D file ends up in
\* the returned channel metadata with the response-channel kind
\* (FIFFV_RESP_CH), as "TRIGGER" ends up with the stimulus kind and "ECG"
\* with the ECG kind; no recognised 4D name is left with the default kind.
C30_KindFollowsName ==
    raw.pc = "returned" =>
        \A k \in 1..Len(raw.ret.info.chs) :
            LET chan_4d == raw.bti_info.ch_names[k]
                kind == raw.ret.info.chs[k].kind
            IN  /\ chan_4d = N_RESPONSE => kind = "FIFFV_RESP_CH"
                /\ chan_4d = N_TRIGGER => kind = "FIFFV_STIM_CH"
                /\ chan_4d = N_ECG => kind = "FIFFV_ECG_CH"
                /\ ~MatchesNoRule(chan_4d) => kind # "402"

----------------------------------------------------------------------------
(* setup_head_shape and convert_coord_frame as a state machine: raw is the *)
(* state of the call of line 1065 on one head-shape file, followed by the  *)
(* in-place conversion of line 1070 when to_vv is set                      *)

MaxDigPoints == 4

InitDig ==
    /\ IdleRename
    /\ rc = [pc |-> "idle"]
    /\ pdf = NoPdf
    /\ hd = [pc |-> "idle"]
    /\ IdleData
    /\ \E n \in 0..MaxDigPoints, use_hpi \in BOOLEAN, to_vv \in BOOLEAN :
          raw = [to_vv |-> to_vv] @@ NewHeadShape(n, use_hpi)

HeadShapePoint ==
    /\ raw.pc = "points"
    /\ raw' = HeadShapePointStep(raw)
    /\ UNCHANGED <<renameVars, rc, headerVars, dataVars>>

ConvertCoordFrame ==
    /\ raw.pc = "returned"
    /\ raw.to_vv
    /\ LET r == convert_coord_frame(raw.dig)
       IN  raw' = [raw EXCEPT !.pc = IF r.ok THEN "converted" ELSE "raised",
                              !.err = r.err,
                              !.dig = r.dig]
    /\ UNCHANGED <<renameVars, rc, headerVars, dataVars>>

NextDig ==
    \/ HeadShapePoint
    \/ ConvertCoordFrame

SpecDig == InitDig /\ [][NextDig]_vars

\* C24: setup_head_shape classifies the points of a head-shape file with 5
\* index points and n digitization points: the first 3 are cardinal with
\* identifiers 1, 2, 3; with use_hpi the next 2 are HPI points with
\* identifiers 1, 2, and without it those 2 points are left out; the n
\* remaining points are extra points with identifiers 1..n in file order;
\* every returned point has a kind and an identifier, so the list has
\* 5 + n entries with use_hpi and 3 + n without.
C24_HeadShapePoints ==
    raw.pc = "returned" =>
        LET n == raw.n_dig_points
            dig == raw.dig
            first == IF raw.use_hpi THEN 5 ELSE 3
        IN  /\ Len(dig) = first + n
            /\ \A k \in 1..3 :
                  /\ dig[k].kind = "FIFFV_POINT_CARDINAL"
                  /\ dig[k].ident = k
                  /\ dig[k].r = FilePoint(k - 1)
            /\ raw.use_hpi =>
                  \A k \in 1..2 :
                      /\ dig[3 + k].kind = "FIFFV_POINT_HPI"
                      /\ dig[3 + k].ident = k
                      /\ dig[3 + k].r = FilePoint(2 + k)
            /\ ~raw.use_hpi =>
                  \A k \in 1..Len(dig) :
                      /\ dig[k].kind # "FIFFV_POINT_HPI"
                      /\ dig[k].r \notin {FilePoint(3), FilePoint(4)}
            /\ \A k \in 1..n :
                  /\ dig[first + k].kind = "FIFFV_POINT_EXTRA"
                  /\ dig[first + k].ident = k
                  /\ dig[first + k].r = FilePoint(4 + k)

\* a file of 3 digitization points read with use_hpi: 8 points returned
C24_Witness ==
    /\ raw.pc = "returned"
    /\ raw.use_hpi
    /\ raw.n_dig_points = 3
    /\ Len(raw.dig) = 8
    /\ raw.dig[8].kind = "FIFFV_POINT_EXTRA"

\* C25: convert_coord_frame applies the computed transform to all
\* digitization points: when it returns, info['dig'] has as many entries
\* as before, the position of every entry (cardinal, HPI and extra) has
\* been replaced by its transformed position and is still a single
\* 3-vector, the 2nd and 3rd fiducials have exchanged places, and kind,
\* identifier and coordinate-frame tag of every entry are unchanged.
C25_AllPointsConverted ==
    [][ (raw.pc = "returned" /\ raw'.pc = "converted") =>
            /\ Len(raw'.dig) = Len(raw.dig)
            /\ \A k \in 1..Len(raw.dig) :
                  /\ raw'.dig[k].kind = raw.dig[k].kind
                  /\ raw'.dig[k].ident = raw.dig[k].ident
                  /\ raw'.dig[k].coord_frame = raw.dig[k].coord_frame
                  /\ raw'.dig[k].r # raw.dig[k].r
                  /\ raw'.dig[k].r.shape = <<3>>
                  /\ raw'.dig[k].r.rows[1].bti =
                        (IF k = 2 THEN raw.dig[3].r.rows[1].bti
                         ELSE IF k = 3 THEN raw.dig[2].r.rows[1].bti
                         ELSE raw.dig[k].r.rows[1].bti)
      ]_vars

====
